---- MODULE Spec2Model ----
(***************************************************************************)
(* The tea API of api2spec-fixture-gin: a MemoryStore of four tables       *)
(* (teapots, teas, brews, steeps) and the gin handlers that serve the      *)
(* /teapots, /teas and /brews route groups on top of it.                   *)
(*                                                                         *)
(* A pointer-typed (optional) field of a record is the empty tuple         *)
(* when nil and a one-element tuple when set.  A Go map is a function      *)
(* whose DOMAIN is the set of keys present.  time.Time values are the      *)
(* readings of `clock`.                                                    *)
(***************************************************************************)
EXTENDS Integers, Sequences, FiniteSets, TLC

VARIABLES teapots, teas, brews, steeps, clock, issued, session, req, resp,
          mu, goroutines, inflight

vars == <<teapots, teas, brews, steeps, clock, issued, session, req, resp, mu, goroutines,
         inflight>>
tables == <<teapots, teas, brews, steeps>>

----------------------------------------------------------------------------
(* Bounds of the model *)

\* records created per table in a behaviour of Spec
MaxRecords == 2
\* records created per table in a behaviour of SpecList
MaxListed == 2
\* largest reading of the clock
MaxClock == 1
\* goroutines serving requests at the same time
MaxGoroutines == 3
\* bits of Go's int (64 on the machines the program is built for)
IntBits == 8

----------------------------------------------------------------------------
(* Values *)

Nil == <<>>
Ptr(v) == <<v>>
Deref(p) == p[1]

Materials == {"ceramic", "cast-iron", "glass", "porcelain", "clay", "stainless-steel"}
Styles == {"kyusu", "gaiwan", "english", "moroccan", "turkish", "yixing"}
StyleEnglish == "english"
TeaTypes == {"green", "black", "oolong", "white", "puerh", "herbal", "rooibos"}
CaffeineLevels == {"none", "low", "medium", "high"}
CaffeineMedium == "medium"
BrewStatuses == {"preparing", "steeping", "ready", "served", "cold"}
BrewPreparing == "preparing"

StatusOK == 200
StatusCreated == 201
StatusNoContent == 204
StatusBadRequest == 400
StatusNotFound == 404
StatusInternalServerError == 500

DefaultPage == 1
DefaultLimit == 20
MaxLimit == 100

\* uuid.New().String(): the n-th identifier issued for a table
Uuid(kind, n) == <<kind, n>>
\* a path or body string that uuid.Parse rejects
Malformed == <<"not-a-uuid", 0>>
\* uuid.Parse(id) succeeds
\* every string passes for an identifier
ParsesAnything(id) == TRUE

ParsesAsUuid(id) == id[1] # "not-a-uuid"

Range(f) == {f[k] : k \in DOMAIN f}

\* Go's int, two's complement of IntBits bits: a result that does not fit
\* wraps around
GoInt(x) == ((x + 2^(IntBits - 1)) % 2^IntBits) - 2^(IntBits - 1)

\* the runtime panic of a slice expression s[low:high] whose bounds do not
\* satisfy 0 <= low <= high <= cap(s)
SliceBoundsOutOfRange == [panic |-> "slice bounds out of range"]

\* Go's integer division, which truncates toward zero
GoDiv(a, b) ==
    IF a >= 0 THEN a \div b ELSE -((-a) \div b)

----------------------------------------------------------------------------
(* MemoryStore: map operations *)

\* m[k] = v on a Go map
MapPut(m, k, v) == [x \in (DOMAIN m) \cup {k} |-> IF x = k THEN v ELSE m[x]]
\* delete(m, k) on a Go map
MapDelete(m, k) == [x \in (DOMAIN m) \ {k} |-> m[x]]

NewMemoryStore ==
    /\ teapots = <<>>
    /\ teas = <<>>
    /\ brews = <<>>
    /\ steeps = <<>>

\* The orders sort.Slice can leave a set of records in: every arrangement in
\* which no element is followed by one that less() puts strictly before it.
\* Map iteration order is random and sort.Slice is not stable, so the order
\* among elements that less() does not separate is any order.
SortSlice(S, less(_, _)) ==
    LET n == Cardinality(S) IN
    {s \in [1..n -> S] :
        /\ \A i, j \in 1..n : i # j => s[i] # s[j]
        /\ \A i, j \in 1..n : i < j => ~less(s[j], s[i])}

\* the comparison turned round: oldest first
CreatedBefore(a, b) == a.CreatedAt < b.CreatedAt
\* filtered[i].CreatedAt.After(filtered[j].CreatedAt)
CreatedAfter(a, b) == a.CreatedAt > b.CreatedAt
\* filtered[i].SteepNumber < filtered[j].SteepNumber
SteepNumberLess(a, b) == a.SteepNumber < b.SteepNumber

\* the window starts at page * limit, as if pages were numbered from 0
PaginateFromPageZero(filtered, page, limit) ==
    LET total == Len(filtered)
        start == page * limit
        end == start + limit
    IN  IF start >= total
        THEN [data |-> <<>>, total |-> total]
        ELSE [data |-> SubSeq(filtered, start + 1, IF end > total THEN total ELSE end),
              total |-> total]

\* a window beyond the last record reports no records at all
PaginateEmptyTotal(filtered, page, limit) ==
    LET total == Len(filtered)
        start == (page - 1) * limit
        end == start + limit
    IN  IF start >= total
        THEN [data |-> <<>>, total |-> 0]
        ELSE [data |-> SubSeq(filtered, start + 1, IF end > total THEN total ELSE end),
              total |-> total]

\* total, start, end and the slice expression shared by every List method
Paginate(filtered, page, limit) ==
    LET total == Len(filtered)
        start == GoInt((page - 1) * limit)
        end == GoInt(start + limit)
        clipped == IF end > total THEN total ELSE end
    IN  IF start >= total
        THEN [data |-> <<>>, total |-> total]
        ELSE IF start < 0 \/ clipped < start
        THEN SliceBoundsOutOfRange
        ELSE [data |-> SubSeq(filtered, start + 1, clipped), total |-> total]

----------------------------------------------------------------------------
(* MemoryStore: teapots *)

TeapotMatches(t, query) ==
    /\ ~(query.Material # Nil /\ t.Material # Deref(query.Material))
    /\ ~(query.Style # Nil /\ t.Style # Deref(query.Style))

\* the set of results ListTeapots can return
ListTeapots(tbl, query) ==
    LET filtered == {t \in Range(tbl) : TeapotMatches(t, query)}
    IN  {Paginate(s, query.Page, query.Limit) : s \in SortSlice(filtered, CreatedAfter)}

CreateTeapot(tbl, t) == MapPut(tbl, t.ID, t)

GetTeapot(tbl, id) ==
    IF id \in DOMAIN tbl THEN [t |-> tbl[id], ok |-> TRUE] ELSE [t |-> Nil, ok |-> FALSE]

\* a teapot that is not stored is not written
UpdateTeapotIfStored(tbl, t) == IF t.ID \in DOMAIN tbl THEN MapPut(tbl, t.ID, t) ELSE tbl

UpdateTeapot(tbl, t) == MapPut(tbl, t.ID, t)

\* the whole table is cleared when the entry exists
DeleteTeapotClearing(tbl, id) ==
    IF id \notin DOMAIN tbl
    THEN [tbl |-> tbl, removed |-> FALSE]
    ELSE [tbl |-> <<>>, removed |-> TRUE]

DeleteTeapot(tbl, id) ==
    IF id \notin DOMAIN tbl
    THEN [tbl |-> tbl, removed |-> FALSE]
    ELSE [tbl |-> MapDelete(tbl, id), removed |-> TRUE]

----------------------------------------------------------------------------
(* MemoryStore: teas *)

TeaMatches(t, query) ==
    /\ ~(query.Type # Nil /\ t.Type # Deref(query.Type))
    /\ ~(query.CaffeineLevel # Nil /\ t.CaffeineLevel # Deref(query.CaffeineLevel))

\* the set of results ListTeas can return
ListTeas(tbl, query) ==
    LET filtered == {t \in Range(tbl) : TeaMatches(t, query)}
    IN  {Paginate(s, query.Page, query.Limit) : s \in SortSlice(filtered, CreatedAfter)}

CreateTea(tbl, t) == MapPut(tbl, t.ID, t)

\* the lookup's second result is dropped: every identifier counts as found,
\* a missing one with the zero value of models.Tea
GetTeaAlwaysFound(tbl, id) ==
    LET zero == [ID |-> Uuid("", 0), Name |-> "", Type |-> "", Origin |-> Nil,
                 CaffeineLevel |-> "", SteepTempCelsius |-> 0, SteepTimeSeconds |-> 0,
                 Description |-> Nil, CreatedAt |-> 0, UpdatedAt |-> 0]
    IN  [t |-> IF id \in DOMAIN tbl THEN tbl[id] ELSE zero, ok |-> TRUE]

GetTea(tbl, id) ==
    IF id \in DOMAIN tbl THEN [t |-> tbl[id], ok |-> TRUE] ELSE [t |-> Nil, ok |-> FALSE]

UpdateTea(tbl, t) == MapPut(tbl, t.ID, t)

\* the entry is looked up after it was deleted
DeleteTeaThenLookUp(tbl, id) ==
    [tbl |-> MapDelete(tbl, id), removed |-> id \in DOMAIN MapDelete(tbl, id)]

DeleteTea(tbl, id) ==
    IF id \notin DOMAIN tbl
    THEN [tbl |-> tbl, removed |-> FALSE]
    ELSE [tbl |-> MapDelete(tbl, id), removed |-> TRUE]

----------------------------------------------------------------------------
(* MemoryStore: brews *)

\* a brew passes as soon as one of the supplied filters agrees with it
BrewMatchesAnyFilter(b, query) ==
    \/ query.Status = Nil /\ query.TeapotID = Nil /\ query.TeaID = Nil
    \/ query.Status # Nil /\ b.Status = Deref(query.Status)
    \/ query.TeapotID # Nil /\ b.TeapotID = Deref(query.TeapotID)
    \/ query.TeaID # Nil /\ b.TeaID = Deref(query.TeaID)

BrewMatches(b, query) ==
    /\ ~(query.Status # Nil /\ b.Status # Deref(query.Status))
    /\ ~(query.TeapotID # Nil /\ b.TeapotID # Deref(query.TeapotID))
    /\ ~(query.TeaID # Nil /\ b.TeaID # Deref(query.TeaID))

\* the set of results ListBrews can return
ListBrews(tbl, query) ==
    LET filtered == {b \in Range(tbl) : BrewMatches(b, query)}
    IN  {Paginate(s, query.Page, query.Limit) : s \in SortSlice(filtered, CreatedAfter)}

\* the teapot is not looked at: the brews of every teapot are listed
ListBrewsOfAnyTeapot(tbl, teapotID, page, limit) ==
    {Paginate(s, page, limit) : s \in SortSlice(Range(tbl), CreatedAfter)}

\* the set of results ListBrewsByTeapot can return
ListBrewsByTeapot(tbl, teapotID, page, limit) ==
    LET filtered == {b \in Range(tbl) : b.TeapotID = teapotID}
    IN  {Paginate(s, page, limit) : s \in SortSlice(filtered, CreatedAfter)}

\* the brew is stored under the identifier of its teapot
CreateBrewUnderTeapot(tbl, b) == MapPut(tbl, b.TeapotID, b)

CreateBrew(tbl, b) == MapPut(tbl, b.ID, b)

GetBrew(tbl, id) ==
    IF id \in DOMAIN tbl THEN [b |-> tbl[id], ok |-> TRUE] ELSE [b |-> Nil, ok |-> FALSE]

UpdateBrew(tbl, b) == MapPut(tbl, b.ID, b)

\* DeleteBrew without its delete(s.brews, id)
DeleteBrewKeepsEntry(tbl, id) ==
    IF id \notin DOMAIN tbl
    THEN [tbl |-> tbl, removed |-> FALSE]
    ELSE [tbl |-> tbl, removed |-> TRUE]

DeleteBrew(tbl, id) ==
    IF id \notin DOMAIN tbl
    THEN [tbl |-> tbl, removed |-> FALSE]
    ELSE [tbl |-> MapDelete(tbl, id), removed |-> TRUE]

----------------------------------------------------------------------------
(* MemoryStore: steeps *)

\* the steeps are sorted as the other lists are, newest first
ListSteepsByBrewNewestFirst(tbl, brewID, page, limit) ==
    LET filtered == {s \in Range(tbl) : s.BrewID = brewID}
    IN  {Paginate(s, page, limit) : s \in SortSlice(filtered, CreatedAfter)}

\* the set of results ListSteepsByBrew can return
ListSteepsByBrew(tbl, brewID, page, limit) ==
    LET filtered == {s \in Range(tbl) : s.BrewID = brewID}
    IN  {Paginate(s, page, limit) : s \in SortSlice(filtered, SteepNumberLess)}

\* every steep is counted, whichever brew it belongs to
CountSteepsOfAllBrews(tbl, brewID) == Cardinality(DOMAIN tbl)

CountSteepsByBrew(tbl, brewID) ==
    Cardinality({k \in DOMAIN tbl : tbl[k].BrewID = brewID})

CreateSteep(tbl, steep) == MapPut(tbl, steep.ID, steep)

GetSteep(tbl, id) ==
    IF id \in DOMAIN tbl THEN [steep |-> tbl[id], ok |-> TRUE] ELSE [steep |-> Nil, ok |-> FALSE]

----------------------------------------------------------------------------
(* gin binding: the validation tags of the request types *)

\* PaginationQuery: page omitempty,min=1; limit omitempty,min=1,max=100
\* the binding of limit without max=100
ValidPaginationNoMax(q) ==
    /\ q.Page = 0 \/ q.Page >= 1
    /\ q.Limit = 0 \/ q.Limit >= 1

ValidPagination(q) ==
    /\ q.Page = 0 \/ q.Page >= 1
    /\ q.Limit = 0 \/ (q.Limit >= 1 /\ q.Limit <= MaxLimit)

ValidTeapotQuery(q) ==
    /\ ValidPagination(q)
    /\ q.Material = Nil \/ Deref(q.Material) \in Materials
    /\ q.Style = Nil \/ Deref(q.Style) \in Styles

ValidTeaQuery(q) ==
    /\ ValidPagination(q)
    /\ q.Type = Nil \/ Deref(q.Type) \in TeaTypes
    /\ q.CaffeineLevel = Nil \/ Deref(q.CaffeineLevel) \in CaffeineLevels

ValidBrewQuery(q) ==
    /\ ValidPagination(q)
    /\ q.Status = Nil \/ Deref(q.Status) \in BrewStatuses
    /\ q.TeapotID = Nil \/ ParsesAsUuid(Deref(q.TeapotID))
    /\ q.TeaID = Nil \/ ParsesAsUuid(Deref(q.TeaID))

\* "Set defaults" in every list handler
WithDefaults(q) ==
    [q EXCEPT !.Page = IF q.Page = 0 THEN DefaultPage ELSE q.Page,
              !.Limit = IF q.Limit = 0 THEN DefaultLimit ELSE q.Limit]

ValidCreateTeapot(b) ==
    /\ b.Name # ""
    /\ b.Material \in Materials
    /\ b.CapacityMl >= 1 /\ b.CapacityMl <= 5000
    /\ b.Style = "" \/ b.Style \in Styles

ValidUpdateTeapot(b) ==
    /\ b.Name # ""
    /\ b.Material \in Materials
    /\ b.CapacityMl >= 1 /\ b.CapacityMl <= 5000
    /\ b.Style \in Styles

ValidPatchTeapot(b) ==
    /\ b.Name = Nil \/ Deref(b.Name) # ""
    /\ b.Material = Nil \/ Deref(b.Material) \in Materials
    /\ b.CapacityMl = Nil \/ (Deref(b.CapacityMl) >= 1 /\ Deref(b.CapacityMl) <= 5000)
    /\ b.Style = Nil \/ Deref(b.Style) \in Styles

ValidCreateTea(b) ==
    /\ b.Name # ""
    /\ b.Type \in TeaTypes
    /\ b.CaffeineLevel = "" \/ b.CaffeineLevel \in CaffeineLevels
    /\ b.SteepTempCelsius >= 60 /\ b.SteepTempCelsius <= 100
    /\ b.SteepTimeSeconds >= 1 /\ b.SteepTimeSeconds <= 600

ValidUpdateTea(b) ==
    /\ b.Name # ""
    /\ b.Type \in TeaTypes
    /\ b.CaffeineLevel \in CaffeineLevels
    /\ b.SteepTempCelsius >= 60 /\ b.SteepTempCelsius <= 100
    /\ b.SteepTimeSeconds >= 1 /\ b.SteepTimeSeconds <= 600

ValidPatchTea(b) ==
    /\ b.Name = Nil \/ Deref(b.Name) # ""
    /\ b.Type = Nil \/ Deref(b.Type) \in TeaTypes
    /\ b.CaffeineLevel = Nil \/ Deref(b.CaffeineLevel) \in CaffeineLevels
    /\ b.SteepTempCelsius = Nil
          \/ (Deref(b.SteepTempCelsius) >= 60 /\ Deref(b.SteepTempCelsius) <= 100)
    /\ b.SteepTimeSeconds = Nil
          \/ (Deref(b.SteepTimeSeconds) >= 1 /\ Deref(b.SteepTimeSeconds) <= 600)

ValidCreateBrew(b) ==
    /\ ParsesAsUuid(b.TeapotID)
    /\ ParsesAsUuid(b.TeaID)
    /\ b.WaterTempCelsius = Nil
          \/ (Deref(b.WaterTempCelsius) >= 60 /\ Deref(b.WaterTempCelsius) <= 100)

ValidPatchBrew(b) ==
    b.Status = Nil \/ Deref(b.Status) \in BrewStatuses

ValidCreateSteep(b) ==
    /\ b.DurationSeconds >= 1
    /\ b.Rating = Nil \/ (Deref(b.Rating) >= 1 /\ Deref(b.Rating) <= 5)

----------------------------------------------------------------------------
(* Requests and responses *)

NoRequest == [op |-> "none"]
NoResponse == [status |-> 0]
\* no request is being served
Idle == req = NoRequest

ErrorResponse(status, code, message) ==
    [status |-> status, code |-> code, message |-> message]
ValidationError(message) == ErrorResponse(StatusBadRequest, "VALIDATION_ERROR", message)
NotFound(message) == ErrorResponse(StatusNotFound, "NOT_FOUND", message)
\* the message of a binding error, err.Error()
BindingError == "binding"

\* the quotient without the rounding up
TotalPagesRoundedDown(total, limit) ==
    LET totalPages == GoDiv(total, limit)
    IN  IF totalPages < 0 THEN 0 ELSE totalPages

\* totalPages as every list handler computes it
TotalPages(total, limit) ==
    LET totalPages == GoDiv(total + limit - 1, limit)
    IN  IF totalPages < 0 THEN 0 ELSE totalPages

\* a panic in the store call is recovered by the engine's Recovery
\* middleware, which answers 500
ListResponse(result, query) ==
    IF result = SliceBoundsOutOfRange
    THEN [status |-> StatusInternalServerError]
    ELSE [status |-> StatusOK,
          data |-> result.data,
          pagination |-> [page |-> query.Page, limit |-> query.Limit,
                          total |-> result.total,
                          totalPages |-> TotalPages(result.total, query.Limit)]]

EntityResponse(status, entity) == [status |-> status, body |-> entity]
NoContent == [status |-> StatusNoContent]

----------------------------------------------------------------------------
(* TeapotHandler *)

TeapotList(q) ==
    /\ Idle
    /\ req' = [op |-> "TeapotList", query |-> q]
    /\ IF ~ValidTeapotQuery(q)
       THEN resp' = ValidationError(BindingError)
       ELSE LET query == WithDefaults(q)
            IN  \E result \in ListTeapots(teapots, query) :
                    resp' = ListResponse(result, query)
    /\ UNCHANGED <<tables, clock, issued, session, mu, goroutines, inflight>>

TeapotCreate(b, cap) ==
    /\ Idle
    /\ issued.teapot < cap
    /\ req' = [op |-> "TeapotCreate", body |-> b]
    /\ IF ~ValidCreateTeapot(b)
       THEN /\ resp' = ValidationError(BindingError)
            /\ UNCHANGED <<tables, issued>>
       ELSE LET now == clock
                teapot == [ID |-> Uuid("teapot", issued.teapot + 1),
                           Name |-> b.Name,
                           Material |-> b.Material,
                           CapacityMl |-> b.CapacityMl,
                           Style |-> IF b.Style = "" THEN StyleEnglish ELSE b.Style,
                           Description |-> b.Description,
                           CreatedAt |-> now,
                           UpdatedAt |-> now]
            IN  /\ teapots' = CreateTeapot(teapots, teapot)
                /\ issued' = [issued EXCEPT !.teapot = @ + 1]
                /\ resp' = EntityResponse(StatusCreated, teapot)
                /\ UNCHANGED <<teas, brews, steeps>>
    /\ UNCHANGED <<clock, session, mu, goroutines, inflight>>

TeapotGet(id) ==
    /\ Idle
    /\ req' = [op |-> "TeapotGet", id |-> id]
    /\ IF ~ParsesAsUuid(id)
       THEN resp' = ValidationError("Invalid teapot ID format")
       ELSE LET got == GetTeapot(teapots, id)
            IN  IF ~got.ok
                THEN resp' = NotFound("Teapot not found")
                ELSE resp' = EntityResponse(StatusOK, got.t)
    /\ UNCHANGED <<tables, clock, issued, session, mu, goroutines, inflight>>

TeapotUpdate(id, b) ==
    /\ Idle
    /\ req' = [op |-> "TeapotUpdate", id |-> id, body |-> b]
    /\ IF ~ParsesAsUuid(id)
       THEN /\ resp' = ValidationError("Invalid teapot ID format")
            /\ UNCHANGED tables
       ELSE LET got == GetTeapot(teapots, id)
            IN  IF ~got.ok
                THEN /\ resp' = NotFound("Teapot not found")
                     /\ UNCHANGED tables
                ELSE IF ~ValidUpdateTeapot(b)
                THEN /\ resp' = ValidationError(BindingError)
                     /\ UNCHANGED tables
                ELSE LET teapot == [ID |-> id,
                                    Name |-> b.Name,
                                    Material |-> b.Material,
                                    CapacityMl |-> b.CapacityMl,
                                    Style |-> b.Style,
                                    Description |-> b.Description,
                                    CreatedAt |-> got.t.CreatedAt,
                                    UpdatedAt |-> clock]
                     IN  /\ teapots' = UpdateTeapot(teapots, teapot)
                         /\ resp' = EntityResponse(StatusOK, teapot)
                         /\ UNCHANGED <<teas, brews, steeps>>
    /\ UNCHANGED <<clock, issued, session, mu, goroutines, inflight>>

\* the "Apply patches" block of TeapotHandler.Patch
\* the patch leaves updatedAt as it was
ApplyTeapotPatchSilently(existing, b, now) ==
    [existing EXCEPT
        !.Name = IF b.Name # Nil THEN Deref(b.Name) ELSE @,
        !.Material = IF b.Material # Nil THEN Deref(b.Material) ELSE @,
        !.CapacityMl = IF b.CapacityMl # Nil THEN Deref(b.CapacityMl) ELSE @,
        !.Style = IF b.Style # Nil THEN Deref(b.Style) ELSE @,
        !.Description = IF b.Description # Nil THEN b.Description ELSE @]

ApplyTeapotPatch(existing, b, now) ==
    [existing EXCEPT
        !.Name = IF b.Name # Nil THEN Deref(b.Name) ELSE @,
        !.Material = IF b.Material # Nil THEN Deref(b.Material) ELSE @,
        !.CapacityMl = IF b.CapacityMl # Nil THEN Deref(b.CapacityMl) ELSE @,
        !.Style = IF b.Style # Nil THEN Deref(b.Style) ELSE @,
        !.Description = IF b.Description # Nil THEN b.Description ELSE @,
        !.UpdatedAt = now]

TeapotPatch(id, b) ==
    /\ Idle
    /\ req' = [op |-> "TeapotPatch", id |-> id, body |-> b]
    /\ IF ~ParsesAsUuid(id)
       THEN /\ resp' = ValidationError("Invalid teapot ID format")
            /\ UNCHANGED tables
       ELSE LET got == GetTeapot(teapots, id)
            IN  IF ~got.ok
                THEN /\ resp' = NotFound("Teapot not found")
                     /\ UNCHANGED tables
                ELSE IF ~ValidPatchTeapot(b)
                THEN /\ resp' = ValidationError(BindingError)
                     /\ UNCHANGED tables
                ELSE LET existing == ApplyTeapotPatch(got.t, b, clock)
                     IN  /\ teapots' = UpdateTeapot(teapots, existing)
                         /\ resp' = EntityResponse(StatusOK, existing)
                         /\ UNCHANGED <<teas, brews, steeps>>
    /\ UNCHANGED <<clock, issued, session, mu, goroutines, inflight>>

\* the brews made in the teapot are deleted with it
TeapotDeleteCascading(id) ==
    /\ Idle
    /\ req' = [op |-> "TeapotDelete", id |-> id]
    /\ IF ~ParsesAsUuid(id)
       THEN /\ resp' = ValidationError("Invalid teapot ID format")
            /\ UNCHANGED tables
       ELSE LET del == DeleteTeapot(teapots, id)
            IN  /\ teapots' = del.tbl
                /\ brews' = [k \in {x \in DOMAIN brews : brews[x].TeapotID # id} |-> brews[k]]
                /\ resp' = IF ~del.removed THEN NotFound("Teapot not found") ELSE NoContent
                /\ UNCHANGED <<teas, steeps>>
    /\ UNCHANGED <<clock, issued, session, mu, goroutines, inflight>>

TeapotDelete(id) ==
    /\ Idle
    /\ req' = [op |-> "TeapotDelete", id |-> id]
    /\ IF ~ParsesAsUuid(id)
       THEN /\ resp' = ValidationError("Invalid teapot ID format")
            /\ UNCHANGED tables
       ELSE LET del == DeleteTeapot(teapots, id)
            IN  /\ teapots' = del.tbl
                /\ resp' = IF ~del.removed THEN NotFound("Teapot not found") ELSE NoContent
                /\ UNCHANGED <<teas, brews, steeps>>
    /\ UNCHANGED <<clock, issued, session, mu, goroutines, inflight>>

----------------------------------------------------------------------------
(* TeaHandler *)

TeaList(q) ==
    /\ Idle
    /\ req' = [op |-> "TeaList", query |-> q]
    /\ IF ~ValidTeaQuery(q)
       THEN resp' = ValidationError(BindingError)
       ELSE LET query == WithDefaults(q)
            IN  \E result \in ListTeas(teas, query) :
                    resp' = ListResponse(result, query)
    /\ UNCHANGED <<tables, clock, issued, session, mu, goroutines, inflight>>

TeaCreate(b, cap) ==
    /\ Idle
    /\ issued.tea < cap
    /\ req' = [op |-> "TeaCreate", body |-> b]
    /\ IF ~ValidCreateTea(b)
       THEN /\ resp' = ValidationError(BindingError)
            /\ UNCHANGED <<tables, issued>>
       ELSE LET now == clock
                tea == [ID |-> Uuid("tea", issued.tea + 1),
                        Name |-> b.Name,
                        Type |-> b.Type,
                        Origin |-> b.Origin,
                        CaffeineLevel |-> IF b.CaffeineLevel = ""
                                          THEN CaffeineMedium ELSE b.CaffeineLevel,
                        SteepTempCelsius |-> b.SteepTempCelsius,
                        SteepTimeSeconds |-> b.SteepTimeSeconds,
                        Description |-> b.Description,
                        CreatedAt |-> now,
                        UpdatedAt |-> now]
            IN  /\ teas' = CreateTea(teas, tea)
                /\ issued' = [issued EXCEPT !.tea = @ + 1]
                /\ resp' = EntityResponse(StatusCreated, tea)
                /\ UNCHANGED <<teapots, brews, steeps>>
    /\ UNCHANGED <<clock, session, mu, goroutines, inflight>>

TeaGet(id) ==
    /\ Idle
    /\ req' = [op |-> "TeaGet", id |-> id]
    /\ IF ~ParsesAsUuid(id)
       THEN resp' = ValidationError("Invalid tea ID format")
       ELSE LET got == GetTea(teas, id)
            IN  IF ~got.ok
                THEN resp' = NotFound("Tea not found")
                ELSE resp' = EntityResponse(StatusOK, got.t)
    /\ UNCHANGED <<tables, clock, issued, session, mu, goroutines, inflight>>

TeaUpdate(id, b) ==
    /\ Idle
    /\ req' = [op |-> "TeaUpdate", id |-> id, body |-> b]
    /\ IF ~ParsesAsUuid(id)
       THEN /\ resp' = ValidationError("Invalid tea ID format")
            /\ UNCHANGED tables
       ELSE LET got == GetTea(teas, id)
            IN  IF ~got.ok
                THEN /\ resp' = NotFound("Tea not found")
                     /\ UNCHANGED tables
                ELSE IF ~ValidUpdateTea(b)
                THEN /\ resp' = ValidationError(BindingError)
                     /\ UNCHANGED tables
                ELSE LET tea == [ID |-> id,
                                 Name |-> b.Name,
                                 Type |-> b.Type,
                                 Origin |-> b.Origin,
                                 CaffeineLevel |-> b.CaffeineLevel,
                                 SteepTempCelsius |-> b.SteepTempCelsius,
                                 SteepTimeSeconds |-> b.SteepTimeSeconds,
                                 Description |-> b.Description,
                                 CreatedAt |-> got.t.CreatedAt,
                                 UpdatedAt |-> clock]
                     IN  /\ teas' = UpdateTea(teas, tea)
                         /\ resp' = EntityResponse(StatusOK, tea)
                         /\ UNCHANGED <<teapots, brews, steeps>>
    /\ UNCHANGED <<clock, issued, session, mu, goroutines, inflight>>

\* the "Apply patches" block of TeaHandler.Patch
ApplyTeaPatch(existing, b, now) ==
    [existing EXCEPT
        !.Name = IF b.Name # Nil THEN Deref(b.Name) ELSE @,
        !.Type = IF b.Type # Nil THEN Deref(b.Type) ELSE @,
        !.Origin = IF b.Origin # Nil THEN b.Origin ELSE @,
        !.CaffeineLevel = IF b.CaffeineLevel # Nil THEN Deref(b.CaffeineLevel) ELSE @,
        !.SteepTempCelsius = IF b.SteepTempCelsius # Nil
                             THEN Deref(b.SteepTempCelsius) ELSE @,
        !.SteepTimeSeconds = IF b.SteepTimeSeconds # Nil
                             THEN Deref(b.SteepTimeSeconds) ELSE @,
        !.Description = IF b.Description # Nil THEN b.Description ELSE @,
        !.UpdatedAt = now]

TeaPatch(id, b) ==
    /\ Idle
    /\ req' = [op |-> "TeaPatch", id |-> id, body |-> b]
    /\ IF ~ParsesAsUuid(id)
       THEN /\ resp' = ValidationError("Invalid tea ID format")
            /\ UNCHANGED tables
       ELSE LET got == GetTea(teas, id)
            IN  IF ~got.ok
                THEN /\ resp' = NotFound("Tea not found")
                     /\ UNCHANGED tables
                ELSE IF ~ValidPatchTea(b)
                THEN /\ resp' = ValidationError(BindingError)
                     /\ UNCHANGED tables
                ELSE LET existing == ApplyTeaPatch(got.t, b, clock)
                     IN  /\ teas' = UpdateTea(teas, existing)
                         /\ resp' = EntityResponse(StatusOK, existing)
                         /\ UNCHANGED <<teapots, brews, steeps>>
    /\ UNCHANGED <<clock, issued, session, mu, goroutines, inflight>>

TeaDelete(id) ==
    /\ Idle
    /\ req' = [op |-> "TeaDelete", id |-> id]
    /\ IF ~ParsesAsUuid(id)
       THEN /\ resp' = ValidationError("Invalid tea ID format")
            /\ UNCHANGED tables
       ELSE LET del == DeleteTea(teas, id)
            IN  /\ teas' = del.tbl
                /\ resp' = IF ~del.removed THEN NotFound("Tea not found") ELSE NoContent
                /\ UNCHANGED <<teapots, brews, steeps>>
    /\ UNCHANGED <<clock, issued, session, mu, goroutines, inflight>>

----------------------------------------------------------------------------
(* BrewHandler *)

BrewList(q) ==
    /\ Idle
    /\ req' = [op |-> "BrewList", query |-> q]
    /\ IF ~ValidBrewQuery(q)
       THEN resp' = ValidationError(BindingError)
       ELSE LET query == WithDefaults(q)
            IN  \E result \in ListBrews(brews, query) :
                    resp' = ListResponse(result, query)
    /\ UNCHANGED <<tables, clock, issued, session, mu, goroutines, inflight>>

\* the tea's temperature whatever the request supplies
waterTempOfTea(b, tea) == tea.SteepTempCelsius

\* "Use tea's recommended temp if not provided"
waterTemp(b, tea) ==
    IF b.WaterTempCelsius # Nil THEN Deref(b.WaterTempCelsius) ELSE tea.SteepTempCelsius

BrewCreate(b, cap) ==
    /\ Idle
    /\ issued.brew < cap
    /\ req' = [op |-> "BrewCreate", body |-> b]
    /\ IF ~ValidCreateBrew(b)
       THEN /\ resp' = ValidationError(BindingError)
            /\ UNCHANGED <<tables, issued>>
       ELSE IF ~GetTeapot(teapots, b.TeapotID).ok
       THEN /\ resp' = ValidationError("Teapot not found")
            /\ UNCHANGED <<tables, issued>>
       ELSE LET got == GetTea(teas, b.TeaID)
            IN  IF ~got.ok
                THEN /\ resp' = ValidationError("Tea not found")
                     /\ UNCHANGED <<tables, issued>>
                ELSE LET now == clock
                         brew == [ID |-> Uuid("brew", issued.brew + 1),
                                  TeapotID |-> b.TeapotID,
                                  TeaID |-> b.TeaID,
                                  Status |-> BrewPreparing,
                                  WaterTempCelsius |-> waterTemp(b, got.t),
                                  Notes |-> b.Notes,
                                  StartedAt |-> now,
                                  CompletedAt |-> Nil,
                                  CreatedAt |-> now,
                                  UpdatedAt |-> now]
                     IN  /\ brews' = CreateBrew(brews, brew)
                         /\ issued' = [issued EXCEPT !.brew = @ + 1]
                         /\ resp' = EntityResponse(StatusCreated, brew)
                         /\ UNCHANGED <<teapots, teas, steeps>>
    /\ UNCHANGED <<clock, session, mu, goroutines, inflight>>

BrewGet(id) ==
    /\ Idle
    /\ req' = [op |-> "BrewGet", id |-> id]
    /\ IF ~ParsesAsUuid(id)
       THEN resp' = ValidationError("Invalid brew ID format")
       ELSE LET got == GetBrew(brews, id)
            IN  IF ~got.ok
                THEN resp' = NotFound("Brew not found")
                ELSE resp' = EntityResponse(StatusOK, got.b)
    /\ UNCHANGED <<tables, clock, issued, session, mu, goroutines, inflight>>

\* the "Apply patches" block of BrewHandler.Patch
\* notes and completedAt are taken from the request even when it omits them
ApplyBrewPatchOverwriting(existing, b, now) ==
    [existing EXCEPT
        !.Status = IF b.Status # Nil THEN Deref(b.Status) ELSE @,
        !.Notes = b.Notes,
        !.CompletedAt = b.CompletedAt,
        !.UpdatedAt = now]

\* the patched brew starts anew
ApplyBrewPatchRestarting(existing, b, now) ==
    [existing EXCEPT
        !.Status = IF b.Status # Nil THEN Deref(b.Status) ELSE @,
        !.Notes = IF b.Notes # Nil THEN b.Notes ELSE @,
        !.CompletedAt = IF b.CompletedAt # Nil THEN b.CompletedAt ELSE @,
        !.StartedAt = now,
        !.UpdatedAt = now]

ApplyBrewPatch(existing, b, now) ==
    [existing EXCEPT
        !.Status = IF b.Status # Nil THEN Deref(b.Status) ELSE @,
        !.Notes = IF b.Notes # Nil THEN b.Notes ELSE @,
        !.CompletedAt = IF b.CompletedAt # Nil THEN b.CompletedAt ELSE @,
        !.UpdatedAt = now]

BrewPatch(id, b) ==
    /\ Idle
    /\ req' = [op |-> "BrewPatch", id |-> id, body |-> b]
    /\ IF ~ParsesAsUuid(id)
       THEN /\ resp' = ValidationError("Invalid brew ID format")
            /\ UNCHANGED tables
       ELSE LET got == GetBrew(brews, id)
            IN  IF ~got.ok
                THEN /\ resp' = NotFound("Brew not found")
                     /\ UNCHANGED tables
                ELSE IF ~ValidPatchBrew(b)
                THEN /\ resp' = ValidationError(BindingError)
                     /\ UNCHANGED tables
                ELSE LET existing == ApplyBrewPatch(got.b, b, clock)
                     IN  /\ brews' = UpdateBrew(brews, existing)
                         /\ resp' = EntityResponse(StatusOK, existing)
                         /\ UNCHANGED <<teapots, teas, steeps>>
    /\ UNCHANGED <<clock, issued, session, mu, goroutines, inflight>>

BrewDelete(id) ==
    /\ Idle
    /\ req' = [op |-> "BrewDelete", id |-> id]
    /\ IF ~ParsesAsUuid(id)
       THEN /\ resp' = ValidationError("Invalid brew ID format")
            /\ UNCHANGED tables
       ELSE LET del == DeleteBrew(brews, id)
            IN  /\ brews' = del.tbl
                /\ resp' = IF ~del.removed THEN NotFound("Brew not found") ELSE NoContent
                /\ UNCHANGED <<teapots, teas, steeps>>
    /\ UNCHANGED <<clock, issued, session, mu, goroutines, inflight>>

\* PUT /brews/:id: the brews group registers GET, PATCH and DELETE on /:id
\* and no PUT, so no handler of BrewHandler runs and the engine answers
\* with its own 404, which carries no error code
BrewUpdateNoRoute(id) ==
    /\ Idle
    /\ req' = [op |-> "BrewUpdate", id |-> id]
    /\ resp' = ErrorResponse(StatusNotFound, "", "404 page not found")
    /\ UNCHANGED <<tables, clock, issued, session, mu, goroutines, inflight>>

BrewListByTeapot(teapotID, q) ==
    /\ Idle
    /\ req' = [op |-> "BrewListByTeapot", id |-> teapotID, query |-> q]
    /\ IF ~ParsesAsUuid(teapotID)
       THEN resp' = ValidationError("Invalid teapot ID format")
       ELSE IF ~GetTeapot(teapots, teapotID).ok
       THEN resp' = NotFound("Teapot not found")
       ELSE IF ~ValidPagination(q)
       THEN resp' = ValidationError(BindingError)
       ELSE LET query == WithDefaults(q)
            IN  \E result \in ListBrewsByTeapot(brews, teapotID, query.Page, query.Limit) :
                    resp' = ListResponse(result, query)
    /\ UNCHANGED <<tables, clock, issued, session, mu, goroutines, inflight>>

BrewListSteeps(brewID, q) ==
    /\ Idle
    /\ req' = [op |-> "BrewListSteeps", id |-> brewID, query |-> q]
    /\ IF ~ParsesAsUuid(brewID)
       THEN resp' = ValidationError("Invalid brew ID format")
       ELSE IF ~GetBrew(brews, brewID).ok
       THEN resp' = NotFound("Brew not found")
       ELSE IF ~ValidPagination(q)
       THEN resp' = ValidationError(BindingError)
       ELSE LET query == WithDefaults(q)
            IN  \E result \in ListSteepsByBrew(steeps, brewID, query.Page, query.Limit) :
                    resp' = ListResponse(result, query)
    /\ UNCHANGED <<tables, clock, issued, session, mu, goroutines, inflight>>

BrewCreateSteep(brewID, b, cap) ==
    /\ Idle
    /\ issued.steep < cap
    /\ req' = [op |-> "BrewCreateSteep", id |-> brewID, body |-> b]
    /\ IF ~ParsesAsUuid(brewID)
       THEN /\ resp' = ValidationError("Invalid brew ID format")
            /\ UNCHANGED <<tables, issued>>
       ELSE IF ~GetBrew(brews, brewID).ok
       THEN /\ resp' = NotFound("Brew not found")
            /\ UNCHANGED <<tables, issued>>
       ELSE IF ~ValidCreateSteep(b)
       THEN /\ resp' = ValidationError(BindingError)
            /\ UNCHANGED <<tables, issued>>
       ELSE LET steepNumber == CountSteepsByBrew(steeps, brewID) + 1
                steep == [ID |-> Uuid("steep", issued.steep + 1),
                          BrewID |-> brewID,
                          SteepNumber |-> steepNumber,
                          DurationSeconds |-> b.DurationSeconds,
                          Rating |-> b.Rating,
                          Notes |-> b.Notes,
                          CreatedAt |-> clock]
            IN  /\ steeps' = CreateSteep(steeps, steep)
                /\ issued' = [issued EXCEPT !.steep = @ + 1]
                /\ resp' = EntityResponse(StatusCreated, steep)
                /\ UNCHANGED <<teapots, teas, brews>>
    /\ UNCHANGED <<clock, session, mu, goroutines, inflight>>

----------------------------------------------------------------------------
(* The environment: the wall clock and the client *)

\* time.Now() reads a later time in a later request
Tick ==
    /\ Idle
    /\ clock < MaxClock
    /\ clock' = clock + 1
    /\ UNCHANGED <<tables, issued, session, req, resp, mu, goroutines, inflight>>

\* the client has read the response; the next request can be sent
ClientReceive ==
    /\ ~Idle
    /\ req' = NoRequest
    /\ resp' = NoResponse
    /\ UNCHANGED <<tables, clock, issued, session, mu, goroutines, inflight>>

----------------------------------------------------------------------------
(* Requests the clients send *)

\* What a client works against: the /teapots routes, the /teas routes, the
\* /brews routes, the brews of a teapot (/teapots/:id/brews), the steeps of
\* a brew (/brews/:id/steeps), or the teapot and tea that a brew refers to.
\* The handlers of one route group read and write no table of another,
\* except that BrewHandler reads teapots and teas.
Sessions == {"teapots", "teas", "brews", "teapot-brews", "steeps", "parents"}

\* the teapots, teas and brews a client of the brew routes creates for its
\* brews and steeps to refer to
ParentTeapots(s) ==
    IF s = "teapot-brews" THEN {Uuid("teapot", 1), Uuid("teapot", 2)}
    ELSE {Uuid("teapot", 1)}
ParentTeas == {Uuid("tea", 1)}
ParentBrews == {Uuid("brew", 1), Uuid("brew", 2)}
\* identifiers that parse and that the store never issued
AbsentTeapot == Uuid("teapot", 0)
AbsentTea == Uuid("tea", 0)
AbsentBrew == Uuid("brew", 0)

TeapotIds(cap) == {Uuid("teapot", n) : n \in 1..cap}
TeaIds(cap) == {Uuid("tea", n) : n \in 1..cap}
BrewIds(cap) == {Uuid("brew", n) : n \in 1..cap}

\* ?page=&limit= as sent: absent (0), in range, and out of range
Pagings ==
    [Page : 1..MaxListed + 1, Limit : {1, 2}]
    \cup {[Page |-> 0, Limit |-> 0], [Page |-> -1, Limit |-> 1],
          [Page |-> 1, Limit |-> MaxLimit + 1]}

ParentTeapotBody ==
    [Name |-> "Kyusu", Material |-> "clay", CapacityMl |-> 350, Style |-> "kyusu",
     Description |-> Nil]
ParentTeaBody ==
    [Name |-> "Dragon Well", Type |-> "green", Origin |-> Nil, CaffeineLevel |-> "",
     SteepTempCelsius |-> 80, SteepTimeSeconds |-> 120, Description |-> Nil]

\* bodies that differ in the fields the list filters read
ListedTeapotBodies ==
    [Name : {"Kyusu"}, Material : {"clay", "glass"}, CapacityMl : {350},
     Style : {"kyusu", ""}, Description : {Nil}]
ListedTeaBodies ==
    [Name : {"Dragon Well"}, Type : {"green", "black"}, Origin : {Nil},
     CaffeineLevel : {"high", ""}, SteepTempCelsius : {80}, SteepTimeSeconds : {120},
     Description : {Nil}]
ListedBrewBodies(s) ==
    [TeapotID : ParentTeapots(s), TeaID : ParentTeas,
     WaterTempCelsius : {Nil}, Notes : {Nil}]
ListedBrewPatches ==
    [Status : {Ptr("steeping")}, Notes : {Nil}, CompletedAt : {Nil}]
ListedSteepBodies ==
    [DurationSeconds : {30}, Rating : {Nil}, Notes : {Nil}]

TeapotQueries ==
    {[Page |-> p.Page, Limit |-> p.Limit, Material |-> m, Style |-> s] :
        p \in Pagings, m \in {Nil, Ptr("clay")}, s \in {Nil, Ptr("english")}}
    \cup {[Page |-> 1, Limit |-> 1, Material |-> Ptr("plastic"), Style |-> Nil]}
TeaQueries ==
    {[Page |-> p.Page, Limit |-> p.Limit, Type |-> t, CaffeineLevel |-> c] :
        p \in Pagings, t \in {Nil, Ptr("green")}, c \in {Nil, Ptr("medium")}}
    \cup {[Page |-> 1, Limit |-> 1, Type |-> Ptr("coffee"), CaffeineLevel |-> Nil]}
BrewQueries(s) ==
    IF s = "brews"
    THEN {[Page |-> p.Page, Limit |-> p.Limit, Status |-> st, TeapotID |-> tp, TeaID |-> te] :
            p \in Pagings, st \in {Nil, Ptr("steeping")},
            tp \in {Nil, Ptr(AbsentTeapot)}, te \in {Nil, Ptr(Uuid("tea", 1))}}
         \cup {[Page |-> 1, Limit |-> 1, Status |-> Nil, TeapotID |-> Ptr(Malformed),
                TeaID |-> Nil],
               [Page |-> 1, Limit |-> 2, Status |-> Nil, TeapotID |-> Nil,
                TeaID |-> Ptr(AbsentTea)]}
    ELSE {[Page |-> p.Page, Limit |-> p.Limit, Status |-> Nil, TeapotID |-> tp, TeaID |-> Nil] :
            p \in Pagings, tp \in {Ptr(Uuid("teapot", 1))}}

----------------------------------------------------------------------------
(* MemoryStore.mu and the goroutines that serve requests *)

Goroutines == 1..MaxGoroutines

\* sync.RWMutex. w is the goroutine that has passed the writers' mutex and
\* announced itself to the readers (0: none), writing tells that it has the
\* lock; readers hold the lock shared; blocked are the readers that arrived
\* after a writer announced itself and wait for it to unlock.
Unlocked == [w |-> 0, writing |-> FALSE, readers |-> {}, blocked |-> {}]

\* A goroutine: the store calls its handler has still to make (todo) and
\* the store methods it is inside of (stack), each with the calls it has
\* still to make itself (rest).
Returned == [todo |-> <<>>, stack |-> <<>>]
\* a goroutine that is in no handler between two of its store calls
NotServing == [op |-> "none"]

----------------------------------------------------------------------------
(* Specifications *)

\* the server after router.Setup, facing a client of the routes `ss`
Setup(ss) ==
    /\ NewMemoryStore
    /\ clock = 0
    /\ issued = [teapot |-> 0, tea |-> 0, brew |-> 0, steep |-> 0]
    /\ session \in ss
    /\ req = NoRequest
    /\ resp = NoResponse
    /\ mu = Unlocked
    /\ goroutines = [g \in Goroutines |-> Returned]
    /\ inflight = [g \in Goroutines |-> NotServing]

InitList == Setup(Sessions \ {"parents"})

BrewSessions == {"brews", "teapot-brews", "steeps"}

\* Listing: records are created, brews change status, and every list route
\* is queried.
NextList ==
    \/ Tick
    \/ ClientReceive
    \/ /\ session = "teapots"
       /\ \E b \in ListedTeapotBodies : TeapotCreate(b, MaxListed)
    \/ /\ session \in BrewSessions
       /\ TeapotCreate(ParentTeapotBody, Cardinality(ParentTeapots(session)))
    \/ /\ session = "teapots"
       /\ \E q \in TeapotQueries : TeapotList(q)
    \/ /\ session = "teas"
       /\ \E b \in ListedTeaBodies : TeaCreate(b, MaxListed)
    \/ /\ session \in BrewSessions
       /\ TeaCreate(ParentTeaBody, Cardinality(ParentTeas))
    \/ /\ session = "teas"
       /\ \E q \in TeaQueries : TeaList(q)
    \/ /\ session \in BrewSessions
       /\ \E b \in ListedBrewBodies(session) :
            BrewCreate(b, IF session = "steeps" THEN Cardinality(ParentBrews) ELSE MaxListed)
    \/ /\ session = "brews"
       /\ \E id \in BrewIds(MaxListed), b \in ListedBrewPatches : BrewPatch(id, b)
    \/ /\ session \in {"brews", "teapot-brews"}
       /\ \E q \in BrewQueries(session) : BrewList(q)
    \/ /\ session = "teapot-brews"
       /\ \E id \in ParentTeapots(session) \cup {Malformed}, q \in Pagings :
            BrewListByTeapot(id, q)
    \/ /\ session = "steeps"
       /\ \E id \in ParentBrews, b \in ListedSteepBodies :
            BrewCreateSteep(id, b, MaxListed + 1)
    \/ /\ session = "steeps"
       /\ \E id \in ParentBrews \cup {Malformed}, q \in Pagings :
            BrewListSteeps(id, q)

SpecList == InitList /\ [][NextList]_vars

----------------------------------------------------------------------------
(* Spec: create, read, replace, patch and delete *)

TeapotBodies == {ParentTeapotBody, [ParentTeapotBody EXCEPT !.CapacityMl = 0]}
PutTeapotBody ==
    [Name |-> "Tetsubin", Material |-> "cast-iron", CapacityMl |-> 1200,
     Style |-> "english", Description |-> Ptr("Cast iron")]
PutTeapotBodies == {PutTeapotBody, [PutTeapotBody EXCEPT !.Style = ""]}
NoTeapotPatch ==
    [Name |-> Nil, Material |-> Nil, CapacityMl |-> Nil, Style |-> Nil, Description |-> Nil]
TeapotPatches ==
    {[NoTeapotPatch EXCEPT !.Name = Ptr("Tetsubin")],
     [NoTeapotPatch EXCEPT !.CapacityMl = Ptr(0)]}

TeaBodies == {ParentTeaBody, [ParentTeaBody EXCEPT !.SteepTempCelsius = 59]}
PutTeaBody ==
    [Name |-> "Earl Grey", Type |-> "black", Origin |-> Ptr("England"),
     CaffeineLevel |-> "high", SteepTempCelsius |-> 95, SteepTimeSeconds |-> 240,
     Description |-> Nil]
PutTeaBodies == {PutTeaBody, [PutTeaBody EXCEPT !.CaffeineLevel = ""]}
NoTeaPatch ==
    [Name |-> Nil, Type |-> Nil, Origin |-> Nil, CaffeineLevel |-> Nil,
     SteepTempCelsius |-> Nil, SteepTimeSeconds |-> Nil, Description |-> Nil]
TeaPatches ==
    {[NoTeaPatch EXCEPT !.SteepTempCelsius = Ptr(95)],
     [NoTeaPatch EXCEPT !.SteepTempCelsius = Ptr(101)]}

BrewBodies(s) ==
    IF s = "brews"
    THEN [TeapotID : ParentTeapots(s) \cup {AbsentTeapot, Malformed},
          TeaID : ParentTeas \cup {AbsentTea},
          WaterTempCelsius : {Nil, Ptr(90), Ptr(101)}, Notes : {Nil}]
    ELSE [TeapotID : ParentTeapots(s), TeaID : ParentTeas,
          WaterTempCelsius : {Nil}, Notes : {Nil}]
NoBrewPatch == [Status |-> Nil, Notes |-> Nil, CompletedAt |-> Nil]
BrewPatches ==
    {[NoBrewPatch EXCEPT !.Status = Ptr("steeping")],
     [NoBrewPatch EXCEPT !.Status = Ptr("boiling")]}
SteepBodies ==
    {[DurationSeconds |-> 30, Rating |-> Nil, Notes |-> Nil],
     [DurationSeconds |-> 0, Rating |-> Nil, Notes |-> Nil]}

\* ?page=&limit= of the list requests sent between the writes: absent, and
\* out of range
ProbePagings == {[Page |-> 0, Limit |-> 0], [Page |-> -1, Limit |-> 1]}
ProbeTeapotQueries ==
    {[Page |-> p.Page, Limit |-> p.Limit, Material |-> Nil, Style |-> Nil] : p \in ProbePagings}
ProbeTeaQueries ==
    {[Page |-> p.Page, Limit |-> p.Limit, Type |-> Nil, CaffeineLevel |-> Nil] :
        p \in ProbePagings}
ProbeBrewQueries ==
    {[Page |-> p.Page, Limit |-> p.Limit, Status |-> Nil, TeapotID |-> f[1], TeaID |-> f[2]] :
        p \in ProbePagings,
        f \in {<<Nil, Nil>>, <<Ptr(Uuid("teapot", 1)), Nil>>, <<Nil, Ptr(Uuid("tea", 1))>>}}

Init == Setup({"teapots", "teas", "brews", "parents", "steeps"})

Next ==
    \/ Tick
    \/ ClientReceive
    \/ /\ session = "teapots"
       /\ \E b \in TeapotBodies : TeapotCreate(b, MaxRecords)
    \/ /\ session \in {"brews", "parents", "steeps"}
       /\ TeapotCreate(ParentTeapotBody, Cardinality(ParentTeapots(session)))
    \/ /\ session = "teapots"
       /\ \E id \in TeapotIds(MaxRecords) \cup {Malformed} : TeapotGet(id)
    \/ /\ session = "teapots"
       /\ \E id \in TeapotIds(MaxRecords) \cup {Malformed}, b \in PutTeapotBodies :
            TeapotUpdate(id, b)
    \/ /\ session = "teapots"
       /\ \E id \in TeapotIds(MaxRecords) \cup {Malformed}, b \in TeapotPatches :
            TeapotPatch(id, b)
    \/ /\ session = "teapots"
       /\ \E id \in TeapotIds(MaxRecords) \cup {Malformed} : TeapotDelete(id)
    \/ /\ session = "parents"
       /\ \E id \in ParentTeapots(session) : TeapotDelete(id)
    \/ /\ session = "teas"
       /\ \E b \in TeaBodies : TeaCreate(b, MaxRecords)
    \/ /\ session \in {"brews", "parents", "steeps"}
       /\ TeaCreate(ParentTeaBody, Cardinality(ParentTeas))
    \/ /\ session = "teas"
       /\ \E id \in TeaIds(MaxRecords) \cup {Malformed} : TeaGet(id)
    \/ /\ \/ session = "teas" /\ \E id \in TeaIds(MaxRecords) \cup {Malformed},
                                   b \in PutTeaBodies : TeaUpdate(id, b)
          \/ session = "parents" /\ \E id \in ParentTeas : TeaUpdate(id, PutTeaBody)
    \/ /\ \/ session = "teas" /\ \E id \in TeaIds(MaxRecords) \cup {Malformed},
                                   b \in TeaPatches : TeaPatch(id, b)
          \/ session = "parents" /\ \E id \in ParentTeas, b \in TeaPatches : TeaPatch(id, b)
    \/ /\ \/ session = "teas" /\ \E id \in TeaIds(MaxRecords) \cup {Malformed} : TeaDelete(id)
          \/ session = "parents" /\ \E id \in ParentTeas : TeaDelete(id)
    \/ /\ session \in {"brews", "parents", "steeps"}
       /\ \E b \in BrewBodies(session) :
            BrewCreate(b, IF session = "steeps" THEN Cardinality(ParentBrews) ELSE MaxRecords)
    \/ /\ session \in {"brews", "parents"}
       /\ \E id \in BrewIds(MaxRecords) \cup {Malformed} : BrewGet(id)
    \/ /\ session = "brews"
       /\ \E id \in BrewIds(MaxRecords) \cup {Malformed}, b \in BrewPatches : BrewPatch(id, b)
    \/ /\ session \in {"brews", "steeps"}
       /\ \E id \in BrewIds(MaxRecords) \cup {Malformed} : BrewDelete(id)
    \/ /\ session = "brews"
       /\ \E id \in BrewIds(MaxRecords) \cup {Malformed} : BrewUpdateNoRoute(id)
    \/ /\ session = "steeps"
       /\ \E id \in ParentBrews \cup {AbsentBrew, Malformed}, b \in SteepBodies :
            BrewCreateSteep(id, b, MaxRecords + 1)
    \/ /\ session = "teapots"
       /\ \E q \in ProbeTeapotQueries : TeapotList(q)
    \/ /\ session = "teas"
       /\ \E q \in ProbeTeaQueries : TeaList(q)
    \/ /\ session \in {"brews", "parents"}
       /\ \E q \in ProbeBrewQueries : BrewList(q)
    \/ /\ session = "parents"
       /\ \E id \in ParentTeapots(session) \cup {AbsentTeapot, Malformed}, q \in ProbePagings :
            BrewListByTeapot(id, q)
    \/ /\ session = "steeps"
       /\ \E id \in ParentBrews \cup {AbsentBrew, Malformed}, q \in ProbePagings :
            BrewListSteeps(id, q)

Spec == Init /\ [][Next]_vars

----------------------------------------------------------------------------
(* SpecPatch: every PATCH body on one record of each table *)

PatchedTeapots == {Uuid("teapot", 1)}
PatchedTeas == {Uuid("tea", 1)}
PatchedBrews == {Uuid("brew", 1)}

WideTeapotPatches ==
    [Name : {Nil, Ptr("Tetsubin")}, Material : {Nil, Ptr("cast-iron")},
     CapacityMl : {Nil, Ptr(1200)}, Style : {Nil, Ptr("english")},
     Description : {Nil, Ptr("Cast iron")}]
WideTeaPatches ==
    [Name : {Nil, Ptr("Earl Grey")}, Type : {Nil, Ptr("black")},
     Origin : {Nil, Ptr("England")}, CaffeineLevel : {Nil, Ptr("high")},
     SteepTempCelsius : {Nil, Ptr(95)}, SteepTimeSeconds : {Nil, Ptr(240)},
     Description : {Nil, Ptr("Bergamot")}]
WideBrewPatches ==
    [Status : {Nil} \cup {Ptr(st) : st \in BrewStatuses},
     Notes : {Nil, Ptr("Using filtered water")},
     CompletedAt : {Nil, Ptr(MaxClock)}]

InitPatch == Setup({"teapots", "teas", "brews"})

NextPatch ==
    \/ Tick
    \/ ClientReceive
    \/ /\ session \in {"teapots", "brews"}
       /\ TeapotCreate(ParentTeapotBody, Cardinality(PatchedTeapots))
    \/ /\ session = "teapots"
       /\ \E id \in PatchedTeapots, b \in WideTeapotPatches : TeapotPatch(id, b)
    \/ /\ session \in {"teas", "brews"}
       /\ TeaCreate(ParentTeaBody, Cardinality(PatchedTeas))
    \/ /\ session = "teas"
       /\ \E id \in PatchedTeas, b \in WideTeaPatches : TeaPatch(id, b)
    \/ /\ session = "brews"
       /\ \E b \in BrewBodies("patched") : BrewCreate(b, Cardinality(PatchedBrews))
    \/ /\ session = "brews"
       /\ \E id \in PatchedBrews, b \in WideBrewPatches : BrewPatch(id, b)
    \/ /\ session = "brews"
       /\ \E id \in PatchedTeas, b \in TeaPatches : TeaPatch(id, b)
    \/ /\ session = "brews"
       /\ \E id \in PatchedTeapots : TeapotDelete(id)

SpecPatch == InitPatch /\ [][NextPatch]_vars

----------------------------------------------------------------------------
(* The store calls of concurrent handlers *)

\* UpdateBrew takes the lock shared
LocksExclusivelyButUpdateBrew ==
    {"CreateTeapot", "UpdateTeapot", "DeleteTeapot", "CreateTea", "UpdateTea", "DeleteTea",
     "CreateBrew", "DeleteBrew", "CreateSteep"}

\* the methods of MemoryStore that begin with s.mu.Lock()
LocksExclusively ==
    {"CreateTeapot", "UpdateTeapot", "DeleteTeapot", "CreateTea", "UpdateTea", "DeleteTea",
     "CreateBrew", "UpdateBrew", "DeleteBrew", "CreateSteep"}
\* every method of MemoryStore
StoreMethods ==
    {"ListTeapots", "CreateTeapot", "GetTeapot", "UpdateTeapot", "DeleteTeapot",
     "ListTeas", "CreateTea", "GetTea", "UpdateTea", "DeleteTea",
     "ListBrews", "ListBrewsByTeapot", "CreateBrew", "GetBrew", "UpdateBrew", "DeleteBrew",
     "ListSteepsByBrew", "CountSteepsByBrew", "CreateSteep", "GetSteep"}
\* the methods of MemoryStore that begin with s.mu.RLock(): all the others
LocksShared == StoreMethods \ LocksExclusively

\* CreateSteep counts the steeps of the brew itself
NestedCount(op) == IF op = "CreateSteep" THEN <<"CountSteepsByBrew">> ELSE <<>>

\* the store methods a store method calls while it holds the lock: none
Nested(op) == <<>>

\* the store calls a handler makes, in order, on each of its paths
HandlerRuns ==
    [TeapotList |-> {<<>>, <<"ListTeapots">>},
     TeapotCreate |-> {<<>>, <<"CreateTeapot">>},
     TeapotGet |-> {<<>>, <<"GetTeapot">>},
     TeapotUpdate |-> {<<>>, <<"GetTeapot">>, <<"GetTeapot", "UpdateTeapot">>},
     TeapotPatch |-> {<<>>, <<"GetTeapot">>, <<"GetTeapot", "UpdateTeapot">>},
     TeapotDelete |-> {<<>>, <<"DeleteTeapot">>},
     TeaList |-> {<<>>, <<"ListTeas">>},
     TeaCreate |-> {<<>>, <<"CreateTea">>},
     TeaGet |-> {<<>>, <<"GetTea">>},
     TeaUpdate |-> {<<>>, <<"GetTea">>, <<"GetTea", "UpdateTea">>},
     TeaPatch |-> {<<>>, <<"GetTea">>, <<"GetTea", "UpdateTea">>},
     TeaDelete |-> {<<>>, <<"DeleteTea">>},
     BrewList |-> {<<>>, <<"ListBrews">>},
     BrewCreate |-> {<<>>, <<"GetTeapot">>, <<"GetTeapot", "GetTea">>,
                     <<"GetTeapot", "GetTea", "CreateBrew">>},
     BrewGet |-> {<<>>, <<"GetBrew">>},
     BrewPatch |-> {<<>>, <<"GetBrew">>, <<"GetBrew", "UpdateBrew">>},
     BrewDelete |-> {<<>>, <<"DeleteBrew">>},
     BrewListByTeapot |-> {<<>>, <<"GetTeapot">>, <<"GetTeapot", "ListBrewsByTeapot">>},
     BrewListSteeps |-> {<<>>, <<"GetBrew">>, <<"GetBrew", "ListSteepsByBrew">>},
     BrewCreateSteep |-> {<<>>, <<"GetBrew">>,
                          <<"GetBrew", "CountSteepsByBrew", "CreateSteep">>}]
Handlers == DOMAIN HandlerRuns

\* the handlers the clients of a session call at the same time
Routes(s) ==
    CASE s = "teapots" -> {"TeapotList", "TeapotCreate", "TeapotGet", "TeapotUpdate",
                            "TeapotPatch", "TeapotDelete"}
      [] s = "teas" -> {"TeaList", "TeaCreate", "TeaGet", "TeaUpdate", "TeaPatch", "TeaDelete"}
      [] s = "brews" -> {"BrewList", "BrewCreate", "BrewGet", "BrewPatch", "BrewDelete"}
      [] s = "teapot-brews" -> {"BrewListByTeapot", "BrewDelete", "TeapotDelete"}
      [] s = "steeps" -> {"BrewListSteeps", "BrewCreateSteep", "BrewDelete"}
      [] s = "parents" -> {"BrewCreate", "TeaPatch", "TeapotDelete"}

Top(g) == goroutines[g].stack[Len(goroutines[g].stack)]

\* the store method the goroutine is calling, "" when it is calling none
Calling(g) ==
    LET r == goroutines[g]
    IN  IF r.stack = <<>>
        THEN IF r.todo = <<>> THEN "" ELSE Head(r.todo)
        ELSE IF Top(g).rest = <<>> THEN "" ELSE Head(Top(g).rest)

\* the goroutine record once the call it is making has the lock
Entered(r) ==
    IF r.stack = <<>>
    THEN [todo |-> Tail(r.todo),
          stack |-> <<[op |-> Head(r.todo), rest |-> Nested(Head(r.todo))]>>]
    ELSE LET n == Len(r.stack)
             callee == Head(r.stack[n].rest)
         IN  [r EXCEPT !.stack = Append([@ EXCEPT ![n].rest = Tail(@)],
                                        [op |-> callee, rest |-> Nested(callee)])]

LockVarsOnly == UNCHANGED <<tables, clock, issued, session, req, resp, inflight>>

\* gin starts a handler on a goroutine that serves no request
Serve(g, h) ==
    /\ goroutines[g] = Returned
    /\ h \in Routes(session)
    /\ \E run \in HandlerRuns[h] :
         goroutines' = [goroutines EXCEPT ![g] = [todo |-> run, stack |-> <<>>]]
    /\ UNCHANGED mu
    /\ LockVarsOnly

\* s.mu.Lock(), first half: pass the writers' mutex and turn new readers away
LockAnnounce(g) ==
    /\ Calling(g) \in LocksExclusively
    /\ mu.w = 0
    /\ mu' = [mu EXCEPT !.w = g]
    /\ UNCHANGED goroutines
    /\ LockVarsOnly

\* s.mu.Lock(), second half: the readers that held the lock have left
LockAcquire(g) ==
    /\ Calling(g) \in LocksExclusively
    /\ mu.w = g
    /\ ~mu.writing
    /\ mu.readers = {}
    /\ mu' = [mu EXCEPT !.writing = TRUE]
    /\ goroutines' = [goroutines EXCEPT ![g] = Entered(@)]
    /\ LockVarsOnly

\* s.mu.RLock(): take the lock shared, or wait for the announced writer
RLock(g) ==
    /\ Calling(g) \in LocksShared
    /\ g \notin mu.blocked
    /\ IF mu.w = 0
       THEN /\ mu' = [mu EXCEPT !.readers = @ \cup {g}]
            /\ goroutines' = [goroutines EXCEPT ![g] = Entered(@)]
       ELSE /\ mu' = [mu EXCEPT !.blocked = @ \cup {g}]
            /\ UNCHANGED goroutines
    /\ LockVarsOnly

\* the store method returns: the deferred s.mu.Unlock() or s.mu.RUnlock().
\* Unlock lets in every reader that waited.
Return(g) ==
    /\ goroutines[g].stack # <<>>
    /\ Top(g).rest = <<>>
    /\ LET left == [goroutines EXCEPT
                      ![g].stack = SubSeq(@, 1, Len(@) - 1)]
       IN  IF Top(g).op \in LocksExclusively
           THEN /\ mu' = [w |-> 0, writing |-> FALSE, readers |-> mu.blocked,
                          blocked |-> {}]
                /\ goroutines' = [h \in Goroutines |->
                                    IF h \in mu.blocked THEN Entered(left[h]) ELSE left[h]]
           ELSE /\ mu' = [mu EXCEPT !.readers = @ \ {g}]
                /\ goroutines' = left
    /\ LockVarsOnly

InitLock == Setup(Sessions)

NextLock ==
    \E g \in Goroutines :
        \/ \E h \in Handlers : Serve(g, h)
        \/ LockAnnounce(g)
        \/ LockAcquire(g)
        \/ RLock(g)
        \/ Return(g)

\* Every step of a store call is taken in the end. The writers' mutex is
\* fair: a writer that finds it free again and again gets it.
FairLock ==
    \A g \in Goroutines :
        /\ SF_vars(LockAnnounce(g))
        /\ WF_vars(LockAcquire(g))
        /\ WF_vars(RLock(g))
        /\ WF_vars(Return(g))

SpecLock == InitLock /\ [][NextLock]_vars /\ FairLock

----------------------------------------------------------------------------
(* Handlers that overlap in time *)

\* Each store method runs under MemoryStore.mu and is one step.  A handler
\* that makes several store calls is split at its calls: inflight[g] holds
\* the handler goroutine g is in, the call it makes next (pc) and its local
\* variables.  The handlers with one store call are the actions above.

\* the handlers of goroutines that have still to write
Pending(op) ==
    Cardinality({g \in Goroutines : inflight[g].op = op /\ inflight[g].pc # "done"})

\* TeaHandler.Patch up to and including h.store.GetTea(id)
ServeTeaPatch(g, id, b) ==
    /\ inflight[g] = NotServing
    /\ LET got == GetTea(teas, id)
           frame == [op |-> "TeaPatch", pc |-> "done", id |-> id, body |-> b,
                     existing |-> Nil, resp |-> NoResponse]
       IN  inflight' = [inflight EXCEPT ![g] =
              IF ~ParsesAsUuid(id)
              THEN [frame EXCEPT !.resp = ValidationError("Invalid tea ID format")]
              ELSE IF ~got.ok
              THEN [frame EXCEPT !.resp = NotFound("Tea not found")]
              ELSE IF ~ValidPatchTea(b)
              THEN [frame EXCEPT !.resp = ValidationError(BindingError)]
              ELSE [frame EXCEPT !.pc = "UpdateTea", !.existing = got.t]]
    /\ UNCHANGED tables
    /\ UNCHANGED <<clock, issued, session, req, resp, mu, goroutines>>

\* TeaHandler.Patch from "Apply patches" on: h.store.UpdateTea(existing)
TeaPatchUpdateTea(g) ==
    /\ inflight[g].op = "TeaPatch"
    /\ inflight[g].pc = "UpdateTea"
    /\ LET existing == ApplyTeaPatch(inflight[g].existing, inflight[g].body, clock)
       IN  /\ teas' = UpdateTea(teas, existing)
           /\ inflight' = [inflight EXCEPT ![g].pc = "done",
                                           ![g].existing = existing,
                                           ![g].resp = EntityResponse(StatusOK, existing)]
    /\ UNCHANGED <<teapots, brews, steeps>>
    /\ UNCHANGED <<clock, issued, session, req, resp, mu, goroutines>>

\* TeaHandler.Delete on a goroutine of its own
ServeTeaDelete(g, id) ==
    /\ inflight[g] = NotServing
    /\ LET del == DeleteTea(teas, id)
           frame == [op |-> "TeaDelete", pc |-> "done", id |-> id, resp |-> NoResponse]
       IN  IF ~ParsesAsUuid(id)
           THEN /\ inflight' = [inflight EXCEPT ![g] =
                       [frame EXCEPT !.resp = ValidationError("Invalid tea ID format")]]
                /\ UNCHANGED tables
           ELSE /\ teas' = del.tbl
                /\ inflight' = [inflight EXCEPT ![g] =
                       [frame EXCEPT !.resp = IF ~del.removed THEN NotFound("Tea not found")
                                                ELSE NoContent]]
                /\ UNCHANGED <<teapots, brews, steeps>>
    /\ UNCHANGED <<clock, issued, session, req, resp, mu, goroutines>>

\* BrewHandler.Create up to and including h.store.GetTeapot(req.TeapotID)
ServeBrewCreate(g, b, cap) ==
    /\ inflight[g] = NotServing
    /\ issued.brew + Pending("BrewCreate") < cap
    /\ LET frame == [op |-> "BrewCreate", pc |-> "done", body |-> b, tea |-> Nil,
                     resp |-> NoResponse]
       IN  inflight' = [inflight EXCEPT ![g] =
              IF ~ValidCreateBrew(b)
              THEN [frame EXCEPT !.resp = ValidationError(BindingError)]
              ELSE IF ~GetTeapot(teapots, b.TeapotID).ok
              THEN [frame EXCEPT !.resp = ValidationError("Teapot not found")]
              ELSE [frame EXCEPT !.pc = "GetTea"]]
    /\ UNCHANGED tables
    /\ UNCHANGED <<clock, issued, session, req, resp, mu, goroutines>>

\* "Verify tea exists and get default temp"
BrewCreateGetTea(g) ==
    /\ inflight[g].op = "BrewCreate"
    /\ inflight[g].pc = "GetTea"
    /\ LET got == GetTea(teas, inflight[g].body.TeaID)
       IN  inflight' = [inflight EXCEPT ![g] =
              IF ~got.ok
              THEN [@ EXCEPT !.pc = "done", !.resp = ValidationError("Tea not found")]
              ELSE [@ EXCEPT !.pc = "CreateBrew", !.tea = got.t]]
    /\ UNCHANGED tables
    /\ UNCHANGED <<clock, issued, session, req, resp, mu, goroutines>>

\* BrewHandler.Create from the default temperature on: h.store.CreateBrew(brew)
BrewCreateCreateBrew(g) ==
    /\ inflight[g].op = "BrewCreate"
    /\ inflight[g].pc = "CreateBrew"
    /\ LET b == inflight[g].body
           now == clock
           brew == [ID |-> Uuid("brew", issued.brew + 1),
                    TeapotID |-> b.TeapotID,
                    TeaID |-> b.TeaID,
                    Status |-> BrewPreparing,
                    WaterTempCelsius |-> waterTemp(b, inflight[g].tea),
                    Notes |-> b.Notes,
                    StartedAt |-> now,
                    CompletedAt |-> Nil,
                    CreatedAt |-> now,
                    UpdatedAt |-> now]
       IN  /\ brews' = CreateBrew(brews, brew)
           /\ issued' = [issued EXCEPT !.brew = @ + 1]
           /\ inflight' = [inflight EXCEPT ![g].pc = "done",
                                           ![g].resp = EntityResponse(StatusCreated, brew)]
    /\ UNCHANGED <<teapots, teas, steeps, clock, session, req, resp, mu, goroutines>>

\* BrewHandler.CreateSteep up to and including h.store.GetBrew(brewID)
ServeBrewCreateSteep(g, brewID, b, cap) ==
    /\ inflight[g] = NotServing
    /\ issued.steep + Pending("BrewCreateSteep") < cap
    /\ LET frame == [op |-> "BrewCreateSteep", pc |-> "done", id |-> brewID, body |-> b,
                     steepNumber |-> 0, resp |-> NoResponse]
       IN  inflight' = [inflight EXCEPT ![g] =
              IF ~ParsesAsUuid(brewID)
              THEN [frame EXCEPT !.resp = ValidationError("Invalid brew ID format")]
              ELSE IF ~GetBrew(brews, brewID).ok
              THEN [frame EXCEPT !.resp = NotFound("Brew not found")]
              ELSE IF ~ValidCreateSteep(b)
              THEN [frame EXCEPT !.resp = ValidationError(BindingError)]
              ELSE [frame EXCEPT !.pc = "CountSteepsByBrew"]]
    /\ UNCHANGED tables
    /\ UNCHANGED <<clock, issued, session, req, resp, mu, goroutines>>

\* "Get next steep number"
BrewCreateSteepCountSteepsByBrew(g) ==
    /\ inflight[g].op = "BrewCreateSteep"
    /\ inflight[g].pc = "CountSteepsByBrew"
    /\ inflight' = [inflight EXCEPT
          ![g].pc = "CreateSteep",
          ![g].steepNumber = CountSteepsByBrew(steeps, inflight[g].id) + 1]
    /\ UNCHANGED tables
    /\ UNCHANGED <<clock, issued, session, req, resp, mu, goroutines>>

\* BrewHandler.CreateSteep from the steep record on: h.store.CreateSteep(steep)
BrewCreateSteepCreateSteep(g) ==
    /\ inflight[g].op = "BrewCreateSteep"
    /\ inflight[g].pc = "CreateSteep"
    /\ LET b == inflight[g].body
           steep == [ID |-> Uuid("steep", issued.steep + 1),
                     BrewID |-> inflight[g].id,
                     SteepNumber |-> inflight[g].steepNumber,
                     DurationSeconds |-> b.DurationSeconds,
                     Rating |-> b.Rating,
                     Notes |-> b.Notes,
                     CreatedAt |-> clock]
       IN  /\ steeps' = CreateSteep(steeps, steep)
           /\ issued' = [issued EXCEPT !.steep = @ + 1]
           /\ inflight' = [inflight EXCEPT ![g].pc = "done",
                                           ![g].resp = EntityResponse(StatusCreated, steep)]
    /\ UNCHANGED <<teapots, teas, brews, clock, session, req, resp, mu, goroutines>>

\* the handler has returned and its response is with the client
HandlerReturns(g) ==
    /\ inflight[g] # NotServing
    /\ inflight[g].pc = "done"
    /\ inflight' = [inflight EXCEPT ![g] = NotServing]
    /\ UNCHANGED tables
    /\ UNCHANGED <<clock, issued, session, req, resp, mu, goroutines>>

InitRace == Setup({"teas", "brews", "steeps"})

NextRace ==
    \/ Tick
    \/ ClientReceive
    \/ /\ session \in {"brews", "steeps"}
       /\ TeapotCreate(ParentTeapotBody, 1)
    \/ TeaCreate(ParentTeaBody, 1)
    \/ /\ session = "teas"
       /\ \E id \in ParentTeas : TeaGet(id)
    \/ /\ session = "brews"
       /\ \E id \in ParentTeapots(session) : TeapotDelete(id)
    \/ /\ session = "brews"
       /\ \E id \in ParentTeas : TeaDelete(id)
    \/ /\ session = "steeps"
       /\ \E id \in BrewIds(1) : BrewDelete(id)
    \/ \E g \in Goroutines :
          \/ /\ session = "teas"
             /\ \E id \in ParentTeas,
                   b \in {[NoTeaPatch EXCEPT !.Name = Ptr("Longjing")],
                          [NoTeaPatch EXCEPT !.SteepTempCelsius = Ptr(85)]} :
                   ServeTeaPatch(g, id, b)
          \/ TeaPatchUpdateTea(g)
          \/ /\ session = "teas"
             /\ \E id \in ParentTeas : ServeTeaDelete(g, id)
          \/ /\ session \in {"brews", "steeps"}
             /\ \E b \in ListedBrewBodies(session) : ServeBrewCreate(g, b, 1)
          \/ BrewCreateGetTea(g)
          \/ BrewCreateCreateBrew(g)
          \/ /\ session = "steeps"
             /\ \E id \in BrewIds(1), b \in ListedSteepBodies :
                   ServeBrewCreateSteep(g, id, b, MaxRecords)
          \/ BrewCreateSteepCountSteepsByBrew(g)
          \/ BrewCreateSteepCreateSteep(g)
          \/ HandlerReturns(g)

SpecRace == InitRace /\ [][NextRace]_vars

----------------------------------------------------------------------------
(* List requests for every page that an int holds *)

InitWindow == Setup({"teapots", "steeps"})

NextWindow ==
    \/ ClientReceive
    \/ /\ session = "teapots"
       /\ TeapotCreate(ParentTeapotBody, MaxListed)
    \/ /\ session = "teapots"
       /\ Idle
       /\ \E page \in 1..2^(IntBits - 1) - 1, limit \in 1..MaxLimit :
            TeapotList([Page |-> page, Limit |-> limit, Material |-> Nil, Style |-> Nil])
    \/ /\ session = "steeps"
       /\ TeapotCreate(ParentTeapotBody, 1)
    \/ /\ session = "steeps"
       /\ TeaCreate(ParentTeaBody, 1)
    \/ /\ session = "steeps"
       /\ \E b \in ListedBrewBodies(session) : BrewCreate(b, 1)
    \/ /\ session = "steeps"
       /\ \E id \in BrewIds(1), b \in ListedSteepBodies : BrewCreateSteep(id, b, MaxListed)
    \/ /\ session = "steeps"
       /\ Idle
       /\ \E id \in BrewIds(1), page \in 1..2^(IntBits - 1) - 1,
             limit \in {1, DefaultLimit, MaxLimit} :
            BrewListSteeps(id, [Page |-> page, Limit |-> limit])

SpecWindow == InitWindow /\ [][NextWindow]_vars

----------------------------------------------------------------------------
(* Properties *)

\* the request served by this step is a successful POST that stored `id`
Created(op, id) ==
    /\ req'.op = op
    /\ resp'.status = StatusCreated
    /\ resp'.body.ID = id
\* the request served by this step is one of `ops` on the path /:id
ServedOn(ops, id) ==
    /\ req'.op \in ops
    /\ req'.id = id

\* C1 (teapots): Get after Create returns the created record; Get after a
\* Delete that returned finds nothing; and what Get returns for an identifier
\* changes only in a step that writes that identifier.
C1Teapots ==
    /\ \A id \in TeapotIds(MaxRecords) :
        /\ Created("TeapotCreate", id)
              => GetTeapot(teapots', id) = [t |-> resp'.body, ok |-> TRUE]
        /\ ServedOn({"TeapotDelete"}, id) /\ resp'.status = StatusNoContent
              => ~GetTeapot(teapots', id).ok
        /\ GetTeapot(teapots', id) # GetTeapot(teapots, id)
              => \/ Created("TeapotCreate", id)
                 \/ ServedOn({"TeapotUpdate", "TeapotPatch", "TeapotDelete"}, id)
        /\ ~GetTeapot(teapots, id).ok /\ GetTeapot(teapots', id).ok
              => \/ Created("TeapotCreate", id)
                 \/ ServedOn({"TeapotUpdate", "TeapotPatch"}, id)
C1Teas ==
    /\ \A id \in TeaIds(MaxRecords) :
        /\ Created("TeaCreate", id)
              => GetTea(teas', id) = [t |-> resp'.body, ok |-> TRUE]
        /\ ServedOn({"TeaDelete"}, id) /\ resp'.status = StatusNoContent
              => ~GetTea(teas', id).ok
        /\ GetTea(teas', id) # GetTea(teas, id)
              => \/ Created("TeaCreate", id)
                 \/ ServedOn({"TeaUpdate", "TeaPatch", "TeaDelete"}, id)
        /\ ~GetTea(teas, id).ok /\ GetTea(teas', id).ok
              => \/ Created("TeaCreate", id)
                 \/ ServedOn({"TeaUpdate", "TeaPatch"}, id)
C1Brews ==
    /\ \A id \in BrewIds(MaxRecords) :
        /\ Created("BrewCreate", id)
              => GetBrew(brews', id) = [b |-> resp'.body, ok |-> TRUE]
        /\ ServedOn({"BrewDelete"}, id) /\ resp'.status = StatusNoContent
              => ~GetBrew(brews', id).ok
        /\ GetBrew(brews', id) # GetBrew(brews, id)
              => \/ Created("BrewCreate", id)
                 \/ ServedOn({"BrewPatch", "BrewDelete"}, id)
        /\ ~GetBrew(brews, id).ok /\ GetBrew(brews', id).ok
              => \/ Created("BrewCreate", id)
                 \/ ServedOn({"BrewPatch"}, id)

\* C1: for teapots, teas and brews, Get(e.ID) after Create(e) returns
\* (e, found) until another write to that identifier, and Get(id) after
\* Delete(id) returns not-found until a Create or Update stores id again.
GetAfterCreateAndDelete == [][C1Teapots /\ C1Teas /\ C1Brews]_vars

\* C1 witness: a brew was created and deleted, and a GET of it finds nothing
\* while another brew is still stored.
GetAfterDeleteServed ==
    /\ req.op = "BrewGet"
    /\ req.id = Uuid("brew", 1)
    /\ issued.brew = 2
    /\ resp.status = StatusNotFound
    /\ GetBrew(brews, Uuid("brew", 2)).ok

----------------------------------------------------------------------------
(* Listing *)

ListOps == {"TeapotList", "TeaList", "BrewList", "BrewListByTeapot", "BrewListSteeps"}
\* the request being answered is the list request `op`, answered with a page
ListServed(op) == req.op = op /\ resp.status = StatusOK
AnyListServed == req.op \in ListOps /\ resp.status = StatusOK

\* a filter that is absent agrees with every value
Agrees(filter, value) == filter = Nil \/ value = Deref(filter)

C2Teapots ==
    ListServed("TeapotList") =>
        LET q == req.query
            matching == {t \in Range(teapots) :
                            Agrees(q.Material, t.Material) /\ Agrees(q.Style, t.Style)}
        IN  /\ \A i \in DOMAIN resp.data : resp.data[i] \in matching
            /\ resp.pagination.total = Cardinality(matching)

C2Teas ==
    ListServed("TeaList") =>
        LET q == req.query
            matching == {t \in Range(teas) :
                            Agrees(q.Type, t.Type) /\ Agrees(q.CaffeineLevel, t.CaffeineLevel)}
        IN  /\ \A i \in DOMAIN resp.data : resp.data[i] \in matching
            /\ resp.pagination.total = Cardinality(matching)

C2Brews ==
    ListServed("BrewList") =>
        LET q == req.query
            matching == {b \in Range(brews) :
                            /\ Agrees(q.Status, b.Status)
                            /\ Agrees(q.TeapotID, b.TeapotID)
                            /\ Agrees(q.TeaID, b.TeaID)}
        IN  /\ \A i \in DOMAIN resp.data : resp.data[i] \in matching
            /\ resp.pagination.total = Cardinality(matching)

\* C2: the filters of ListTeapots, ListTeas and ListBrews combine with AND:
\* every returned record is a stored record that equals the filter on each
\* supplied field, and the reported total is the number of stored records
\* matching all supplied filters, whatever page and limit were asked for.
FiltersCombineWithAnd == C2Teapots /\ C2Teas /\ C2Brews

\* C2 witness: two brews of the same tea, one of them steeping, listed with
\* a status and a tea filter: one record, total 1.
FilteredBrewsListed ==
    /\ ListServed("BrewList")
    /\ req.query.Status = Ptr("steeping")
    /\ req.query.TeaID = Ptr(Uuid("tea", 1))
    /\ Cardinality(DOMAIN brews) = 2
    /\ Len(resp.data) = 1
    /\ resp.pagination.total = 1

Min(a, b) == IF a < b THEN a ELSE b

\* the records the request being answered selects
Listed ==
    CASE req.op = "TeapotList" -> {t \in Range(teapots) : TeapotMatches(t, req.query)}
      [] req.op = "TeaList" -> {t \in Range(teas) : TeaMatches(t, req.query)}
      [] req.op = "BrewList" -> {b \in Range(brews) : BrewMatches(b, req.query)}
      [] req.op = "BrewListByTeapot" -> {b \in Range(brews) : b.TeapotID = req.id}
      [] req.op = "BrewListSteeps" -> {s \in Range(steeps) : s.BrewID = req.id}
      [] OTHER -> {}
\* the orders the store can put them in
Ordered ==
    IF req.op = "BrewListSteeps"
    THEN SortSlice(Listed, SteepNumberLess)
    ELSE SortSlice(Listed, CreatedAfter)

ListAccepted ==
    CASE req.op = "TeapotList" -> ValidTeapotQuery(req.query)
      [] req.op = "TeaList" -> ValidTeaQuery(req.query)
      [] req.op = "BrewList" -> ValidBrewQuery(req.query)
      [] req.op = "BrewListByTeapot" ->
            ParsesAsUuid(req.id) /\ req.id \in DOMAIN teapots /\ ValidPagination(req.query)
      [] req.op = "BrewListSteeps" ->
            ParsesAsUuid(req.id) /\ req.id \in DOMAIN brews /\ ValidPagination(req.query)
      [] OTHER -> FALSE

NextPages ==
    LET query == [WithDefaults(req.query) EXCEPT !.Page = @ + 1]
    IN  CASE req.op = "TeapotList" -> ListTeapots(teapots, query)
          [] req.op = "TeaList" -> ListTeas(teas, query)
          [] req.op = "BrewList" -> ListBrews(brews, query)
          [] req.op = "BrewListByTeapot" ->
                ListBrewsByTeapot(brews, req.id, query.Page, query.Limit)
          [] OTHER -> {}

\* C5: the pages of ListTeapots, ListTeas, ListBrews and ListBrewsByTeapot
\* are ordered by createdAt descending, and for a fixed store state every
\* record on page p is not older than any record on page p+1.
NewestFirst ==
    (AnyListServed /\ req.op # "BrewListSteeps") =>
        /\ \A i, j \in DOMAIN resp.data :
             i < j => resp.data[i].CreatedAt >= resp.data[j].CreatedAt
        /\ \A next \in NextPages :
             \A i \in DOMAIN resp.data, j \in DOMAIN next.data :
                resp.data[i].CreatedAt >= next.data[j].CreatedAt

\* C5 witness: two teas created at different times, listed one per page:
\* page 1 holds the later one.
NewerTeaOnFirstPage ==
    /\ ListServed("TeaList")
    /\ resp.pagination.page = 1
    /\ resp.pagination.limit = 1
    /\ Len(resp.data) = 1
    /\ \E t \in Range(teas) : t.CreatedAt < resp.data[1].CreatedAt

\* the request being answered carries no filter
NoFilters ==
    CASE req.op = "TeapotList" -> req.query.Material = Nil /\ req.query.Style = Nil
      [] req.op = "TeaList" -> req.query.Type = Nil /\ req.query.CaffeineLevel = Nil
      [] req.op = "BrewList" ->
            req.query.Status = Nil /\ req.query.TeapotID = Nil /\ req.query.TeaID = Nil
      [] OTHER -> FALSE

\* totalPages is the least number of pages of `limit` records that hold
\* `total` records, which is (total + limit - 1) / limit
C6Ceiling ==
    AnyListServed =>
        LET p == resp.pagination
        IN  /\ p.totalPages >= 0
            /\ p.totalPages * p.limit >= p.total
            /\ p.totalPages > 0 => (p.totalPages - 1) * p.limit < p.total
            /\ p.totalPages = (p.total + p.limit - 1) \div p.limit

\* with no filters and limit >= total, on the pages in `pages`, the response
\* carries exactly total records and totalPages is 1 or 0
C6Whole(pages) ==
    (AnyListServed /\ NoFilters) =>
        LET p == resp.pagination
        IN  (p.limit >= p.total /\ p.page \in pages) =>
                /\ Len(resp.data) = p.total
                /\ p.totalPages = IF p.total > 0 THEN 1 ELSE 0

\* C6 as stated: totalPages equals ceil(total/limit) = (total+limit-1)/limit
\* and is never below 0; with no filters and limit >= total the response
\* carries exactly total records (on whatever page was asked for) and
\* totalPages is 1 when total > 0 and 0 when total = 0.
TotalPagesAndWholeListOnAnyPage == C6Ceiling /\ C6Whole(Int)

\* C6, amended: totalPages equals ceil(total/limit) = (total+limit-1)/limit
\* and is never below 0; with no filters and limit >= total the response to
\* a request for page 1 carries exactly total records and totalPages is 1
\* when total > 0 and 0 when total = 0.
TotalPagesAndWholeListOnFirstPage == C6Ceiling /\ C6Whole({1})

\* C6 witness: two teapots listed without filters, page 1, limit 2.
WholeListOnOnePage ==
    /\ ListServed("TeapotList")
    /\ NoFilters
    /\ resp.pagination.page = 1
    /\ resp.pagination.limit = 2
    /\ resp.pagination.total = 2
    /\ Len(resp.data) = 2
    /\ resp.pagination.totalPages = 1

----------------------------------------------------------------------------
(* PATCH *)

\* `new` is `old` with the supplied fields of `b` put in: `values` are the
\* fields the record holds by value, `pointers` the ones it holds as the
\* request's pointer; updatedAt is the time of the request and every other
\* field, id and createdAt among them, is as it was
PatchedFrom(old, new, b, values, pointers) ==
    /\ DOMAIN new = DOMAIN old
    /\ \A f \in values : new[f] = IF b[f] # Nil THEN Deref(b[f]) ELSE old[f]
    /\ \A f \in pointers : new[f] = IF b[f] # Nil THEN b[f] ELSE old[f]
    /\ new.UpdatedAt = clock
    /\ new.ID = old.ID
    /\ new.CreatedAt = old.CreatedAt
    /\ \A f \in DOMAIN old \ (values \cup pointers \cup {"UpdatedAt"}) : new[f] = old[f]

\* the request served by this step is a successful PATCH
PatchServed(op) == req'.op = op /\ resp'.status = StatusOK

C7Table(op, tbl, tblNext, values, pointers) ==
    PatchServed(op) =>
        /\ req'.id \in DOMAIN tbl
        /\ DOMAIN tblNext = DOMAIN tbl
        /\ PatchedFrom(tbl[req'.id], tblNext[req'.id], req'.body, values, pointers)
        /\ tblNext[req'.id].ID = req'.id
        /\ resp'.body = tblNext[req'.id]
        /\ \A other \in DOMAIN tbl \ {req'.id} : tblNext[other] = tbl[other]

\* C7: a successful PATCH on a teapot, a tea or a brew changes exactly the
\* fields supplied in the request plus updatedAt: every omitted field keeps
\* its prior value, and the record keeps its id and createdAt.
PatchChangesSuppliedFields ==
    [][/\ C7Table("TeapotPatch", teapots, teapots',
                  {"Name", "Material", "CapacityMl", "Style"}, {"Description"})
       /\ C7Table("TeaPatch", teas, teas',
                  {"Name", "Type", "CaffeineLevel", "SteepTempCelsius", "SteepTimeSeconds"},
                  {"Origin", "Description"})
       /\ C7Table("BrewPatch", brews, brews', {"Status"}, {"Notes", "CompletedAt"})]_vars

\* C7 witness: a brew whose notes were set by an earlier PATCH is patched
\* later with a status alone: the notes stay, the status and updatedAt change.
BrewPatchedKeepsNotes ==
    /\ req.op = "BrewPatch"
    /\ resp.status = StatusOK
    /\ req.body = [Status |-> Ptr("steeping"), Notes |-> Nil, CompletedAt |-> Nil]
    /\ resp.body.Notes = Ptr("Using filtered water")
    /\ resp.body.Status = "steeping"
    /\ resp.body.CreatedAt < resp.body.UpdatedAt
    /\ brews[req.id] = resp.body

----------------------------------------------------------------------------
(* Brews and steeps *)

\* C8: POST /brews whose teapotId or teaId is well-formed but names no
\* stored teapot or tea is answered 400 VALIDATION_ERROR and leaves the brew
\* table unchanged.
BrewOfMissingParentRejected ==
    [][(/\ req'.op = "BrewCreate"
        /\ ParsesAsUuid(req'.body.TeapotID)
        /\ ParsesAsUuid(req'.body.TeaID)
        /\ \/ req'.body.TeapotID \notin DOMAIN teapots
           \/ req'.body.TeaID \notin DOMAIN teas)
       => /\ resp'.status = StatusBadRequest
          /\ resp'.code = "VALIDATION_ERROR"
          /\ brews' = brews]_vars

\* C8 witness: a brew of a stored teapot and a missing tea was refused, with
\* a valid temperature in the request.
BrewOfMissingTeaRefused ==
    /\ req.op = "BrewCreate"
    /\ req.body.TeapotID \in DOMAIN teapots
    /\ req.body.TeaID = AbsentTea
    /\ req.body.WaterTempCelsius = Ptr(90)
    /\ resp.status = StatusBadRequest
    /\ resp.message = "Tea not found"

C9Created ==
    (req'.op = "BrewCreate" /\ resp'.status = StatusCreated) =>
        LET b == req'.body
            brew == resp'.body
        IN  /\ brew.Status = "preparing"
            /\ b.TeaID \in DOMAIN teas
            /\ brew.WaterTempCelsius =
                 IF b.WaterTempCelsius = Nil
                 THEN teas[b.TeaID].SteepTempCelsius
                 ELSE b.WaterTempCelsius[1]
            /\ brew.ID \in DOMAIN brews' \ DOMAIN brews
            /\ brews'[brew.ID] = brew

C9Later ==
    /\ \A id \in DOMAIN brews \cap DOMAIN brews' :
         brews'[id].WaterTempCelsius = brews[id].WaterTempCelsius
    /\ req'.op \in {"TeaUpdate", "TeaPatch", "TeaDelete"} => brews' = brews

\* C9: a created brew has status "preparing"; its waterTempCelsius is the
\* supplied value, or else the steepTempCelsius the tea has at that moment;
\* a later PUT or PATCH of the tea, or its deletion, leaves the
\* waterTempCelsius of every existing brew unchanged.
BrewTemperatureFixedAtCreation == [][C9Created /\ C9Later]_vars

\* C9 witness: a brew took 80 from its tea, and the tea was then patched
\* to 95.
TeaChangedAfterBrew ==
    /\ req.op = "TeaPatch"
    /\ resp.status = StatusOK
    /\ resp.body.SteepTempCelsius = 95
    /\ teas[req.id].SteepTempCelsius = 95
    /\ \E id \in DOMAIN brews :
         brews[id].TeaID = req.id /\ brews[id].WaterTempCelsius = 80

\* the steep numbers of the steeps stored for a brew
SteepNumbersOf(tbl, brewID) ==
    {tbl[k].SteepNumber : k \in {k \in DOMAIN tbl : tbl[k].BrewID = brewID}}
SteepsOf(tbl, brewID) == {k \in DOMAIN tbl : tbl[k].BrewID = brewID}

\* C10: POST /brews/:id/steeps gives the new steep the number of steeps
\* stored for that brew at that moment plus 1, so that n creations for a
\* brew that had none yield the numbers 1..n.
SteepsNumberedInSequence ==
    [][/\ (req'.op = "BrewCreateSteep" /\ resp'.status = StatusCreated) =>
            /\ resp'.body.SteepNumber = Cardinality(SteepsOf(steeps, req'.id)) + 1
            /\ resp'.body.BrewID = req'.id
            /\ resp'.body.ID \in DOMAIN steeps' \ DOMAIN steeps
            /\ steeps'[resp'.body.ID] = resp'.body
       /\ \A id \in ParentBrews :
            SteepNumbersOf(steeps', id) = 1..Cardinality(SteepsOf(steeps', id))]_vars

\* C10 witness: the second steep of one brew was created after the first
\* steep of another.
SecondSteepOfBrew ==
    /\ req.op = "BrewCreateSteep"
    /\ resp.status = StatusCreated
    /\ resp.body.SteepNumber = 2
    /\ SteepNumbersOf(steeps, req.id) = {1, 2}
    /\ \E other \in ParentBrews \ {req.id} : SteepNumbersOf(steeps, other) = {1}

----------------------------------------------------------------------------
(* Errors *)

\* the keys at which a table differs before and after the step
Written(tbl, tblNext) ==
    {k \in DOMAIN tbl \cup DOMAIN tblNext :
        \/ k \notin DOMAIN tbl
        \/ k \notin DOMAIN tblNext
        \/ tbl[k] # tblNext[k]}

\* C11: a request answered 400 or 404 leaves all four tables exactly as
\* they were; a request performs its whole store mutation or none of it: any
\* other answer writes at most one entry of one table.
ErrorsLeaveTablesUnchanged ==
    [][/\ resp'.status \in {StatusBadRequest, StatusNotFound} => tables' = tables
       /\ Cardinality(Written(teapots, teapots')) + Cardinality(Written(teas, teas'))
          + Cardinality(Written(brews, brews')) + Cardinality(Written(steeps, steeps')) <= 1]_vars

\* C11 witness: a steep for a brew that was deleted is refused with 404
\* while the steeps recorded earlier are still stored.
SteepOfDeletedBrewRefused ==
    /\ req.op = "BrewCreateSteep"
    /\ resp.status = StatusNotFound
    /\ \E k \in DOMAIN steeps : steeps[k].BrewID = req.id

----------------------------------------------------------------------------
(* The lock *)

\* the write operations of the store
WriteOperations ==
    {"CreateTeapot", "UpdateTeapot", "DeleteTeapot", "CreateTea", "UpdateTea", "DeleteTea",
     "CreateBrew", "UpdateBrew", "DeleteBrew", "CreateSteep"}
\* the store operations the goroutine is inside of
Inside(g) == {goroutines[g].stack[i].op : i \in DOMAIN goroutines[g].stack}
\* the goroutine holds the lock, exclusively or shared
Holds(g) == (mu.w = g /\ mu.writing) \/ g \in mu.readers

\* C12: a store write operation (Create*, Update*, Delete*) holds the lock
\* exclusively: while a goroutine is inside one it is the writer of the lock
\* and no other goroutine holds the lock or is inside any store operation.
\* Read operations hold it shared.
WritersHoldTheLockAlone ==
    \A g \in Goroutines :
        /\ Inside(g) # {} => Holds(g)
        /\ Inside(g) \cap WriteOperations # {} =>
             /\ mu.w = g /\ mu.writing
             /\ mu.readers = {}
             /\ \A h \in Goroutines \ {g} : Inside(h) = {} /\ ~Holds(h)
        /\ (Inside(g) # {} /\ Inside(g) \cap WriteOperations = {}) => g \in mu.readers

\* C12 witness: two goroutines are inside read operations at the same time
\* while a third, calling a write operation, waits for them to leave.
ReadersShareWriterWaits ==
    \E g, h, w \in Goroutines :
        /\ g # h
        /\ Inside(g) = {"GetBrew"}
        /\ Inside(h) = {"ListBrews"}
        /\ Calling(w) = "UpdateBrew"
        /\ mu.w = w
        /\ ~mu.writing

\* some goroutine can take a step of a store call
StoreStepEnabled ==
    \E g \in Goroutines :
        ENABLED (LockAnnounce(g) \/ LockAcquire(g) \/ RLock(g) \/ Return(g))

\* a store call is under way: called, waiting or holding the lock
InStoreCall(g) == goroutines[g] # Returned

\* no deadlock; a goroutine that calls a store method holds the lock in no
\* way, and a handler between two store calls holds it in no way
C13Safe ==
    /\ (\E g \in Goroutines : InStoreCall(g)) => StoreStepEnabled
    /\ \A g \in Goroutines :
         /\ Calling(g) # "" => ~Holds(g)
         /\ goroutines[g].stack = <<>> => ~Holds(g)

\* C13: with concurrent requests no reachable state is a deadlock, and under
\* fair lock scheduling every store operation that is started acquires the
\* lock, completes and releases it in the end; no store operation acquires
\* the lock while it holds it, and no handler holds it across two store calls.
StoreCallsComplete ==
    /\ []C13Safe
    /\ \A g \in Goroutines :
         /\ (Calling(g) # "") ~> (Inside(g) # {})
         /\ (Inside(g) # {}) ~> (Inside(g) = {} /\ ~Holds(g))
         /\ InStoreCall(g) ~> (goroutines[g] = Returned)

\* C13 witness: a writer has the lock while another writer waits for the
\* writers' mutex and a reader waits for the writer to unlock.
WriterAndReaderWait ==
    \E g, h, r \in Goroutines :
        /\ Inside(g) = {"CreateSteep"}
        /\ h # g
        /\ Calling(h) = "DeleteBrew"
        /\ Calling(r) = "CountSteepsByBrew"
        /\ r \in mu.blocked

----------------------------------------------------------------------------
(* Identifiers and timestamps *)

\* every entry of the table is stored under its own identifier
KeyedByID(tbl) == \A k \in DOMAIN tbl : tbl[k].ID = k

PutAndPatch ==
    {"TeapotUpdate", "TeapotPatch", "TeaUpdate", "TeaPatch", "BrewPatch"}
\* the table a request on /:id acts on, before and after the step
TableOf(op) ==
    CASE op \in {"TeapotGet", "TeapotUpdate", "TeapotPatch", "TeapotDelete",
                 "BrewListByTeapot"} -> teapots
      [] op \in {"TeaGet", "TeaUpdate", "TeaPatch", "TeaDelete"} -> teas
      [] OTHER -> brews
TableOfNext(op) ==
    CASE op \in {"TeapotGet", "TeapotUpdate", "TeapotPatch", "TeapotDelete",
                 "BrewListByTeapot"} -> teapots'
      [] op \in {"TeaGet", "TeaUpdate", "TeaPatch", "TeaDelete"} -> teas'
      [] OTHER -> brews'

\* C14: each table maps an identifier to a record whose ID is that
\* identifier, so no two records of a table share one; PUT and PATCH never
\* change the identifier of the record they act on nor, when it exists, the
\* number of records in the table.
IdentifiersAreKeys ==
    [][/\ KeyedByID(teapots') /\ KeyedByID(teas') /\ KeyedByID(brews') /\ KeyedByID(steeps')
       /\ req'.op \in PutAndPatch =>
            /\ DOMAIN TableOfNext(req'.op) = DOMAIN TableOf(req'.op)
            /\ resp'.status = StatusOK =>
                 /\ req'.id \in DOMAIN TableOf(req'.op)
                 /\ TableOfNext(req'.op)[req'.id].ID = req'.id
                 /\ resp'.body.ID = req'.id]_vars

\* C14 witness: one of two teas was replaced by PUT; both are still stored,
\* each under its identifier.
TeaReplacedInPlace ==
    /\ req.op = "TeaUpdate"
    /\ resp.status = StatusOK
    /\ Cardinality(DOMAIN teas) = 2
    /\ teas[req.id].Name = "Earl Grey"
    /\ \E k \in DOMAIN teas : teas[k].Name = "Dragon Well"

\* the step stores a new teapot, tea or brew
CreatedEntity ==
    /\ req'.op \in {"TeapotCreate", "TeaCreate", "BrewCreate"}
    /\ resp'.status = StatusCreated

\* no record that stays in the table changes its createdAt
CreatedAtKept(tbl, tblNext) ==
    \A k \in DOMAIN tbl \cap DOMAIN tblNext : tblNext[k].CreatedAt = tbl[k].CreatedAt

\* C15: a teapot, tea or brew is created with createdAt equal to updatedAt
\* and a non-empty identifier; PUT and PATCH leave createdAt at the value
\* assigned at creation, and each successful PUT or PATCH sets updatedAt to
\* the time of the request, never earlier than the previous updatedAt.
TimestampsOfRecords ==
    [][/\ CreatedEntity =>
            /\ resp'.body.CreatedAt = resp'.body.UpdatedAt
            /\ resp'.body.CreatedAt = clock
            /\ ParsesAsUuid(resp'.body.ID)
            /\ resp'.body.ID # Uuid("", 0)
       /\ CreatedAtKept(teapots, teapots')
       /\ CreatedAtKept(teas, teas')
       /\ CreatedAtKept(brews, brews')
       /\ (req'.op \in PutAndPatch /\ resp'.status = StatusOK) =>
            LET old == TableOf(req'.op)[req'.id]
                new == TableOfNext(req'.op)[req'.id]
            IN  /\ new.CreatedAt = old.CreatedAt
                /\ new.UpdatedAt = clock
                /\ new.UpdatedAt >= old.UpdatedAt
                /\ resp'.body = new]_vars

\* C15 witness: a teapot created at time 0 was patched at time 1.
TeapotPatchedLater ==
    /\ req.op = "TeapotPatch"
    /\ resp.status = StatusOK
    /\ resp.body.CreatedAt = 0
    /\ resp.body.UpdatedAt = 1
    /\ teapots[req.id] = resp.body

----------------------------------------------------------------------------
(* Relationship listings *)

\* the pages and limits the list handlers pass on to the store
StorePages == 1..MaxListed + 2
StoreLimits == 1..MaxListed + 1

\* the query of ListBrews that has the teapot filter alone
OnlyTeapot(t, page, limit) ==
    [Page |-> page, Limit |-> limit, Status |-> Nil, TeapotID |-> Ptr(t), TeaID |-> Nil]

\* no two of the records were created at the same time
DistinctCreatedAt(S) == \A a, b \in S : a # b => a.CreatedAt # b.CreatedAt

\* C16: on the same store state ListBrewsByTeapot(t, page, limit) returns
\* the same total and the same brews as ListBrews with only the teapotId
\* filter set to t and the same page and limit (where brews created at the
\* same time leave the order open, the two can return the same pages);
\* ListSteepsByBrew(b, ...) returns only steeps whose brewId is b and a total
\* equal to CountSteepsByBrew(b).
RelationshipListsAreFilters ==
    /\ \A t \in ParentTeapots("teapot-brews") \cup {AbsentTeapot},
          page \in StorePages, limit \in StoreLimits :
         /\ ListBrewsByTeapot(brews, t, page, limit)
              = ListBrews(brews, OnlyTeapot(t, page, limit))
         /\ \A r1 \in ListBrewsByTeapot(brews, t, page, limit),
               r2 \in ListBrews(brews, OnlyTeapot(t, page, limit)) :
                /\ r1.total = r2.total
                /\ DistinctCreatedAt({b \in Range(brews) : b.TeapotID = t}) => r1 = r2
    /\ \A b \in ParentBrews \cup {AbsentBrew}, page \in StorePages, limit \in StoreLimits :
         \A r \in ListSteepsByBrew(steeps, b, page, limit) :
            /\ r.total = CountSteepsByBrew(steeps, b)
            /\ \A i \in DOMAIN r.data : r.data[i].BrewID = b
    /\ ListServed("BrewListByTeapot") =>
         \E r \in ListBrews(brews, OnlyTeapot(req.id, resp.pagination.page,
                                              resp.pagination.limit)) :
            resp.data = r.data /\ resp.pagination.total = r.total
    /\ ListServed("BrewListSteeps") =>
         /\ resp.pagination.total = CountSteepsByBrew(steeps, req.id)
         /\ \A i \in DOMAIN resp.data : resp.data[i].BrewID = req.id

\* C16 witness: two teapots have a brew each and the brews of one of them
\* were listed: one brew, total 1.
BrewsOfOneTeapotListed ==
    /\ ListServed("BrewListByTeapot")
    /\ Cardinality(DOMAIN brews) = 2
    /\ resp.pagination.total = 1
    /\ Len(resp.data) = 1
    /\ resp.data[1].TeapotID = req.id
    /\ \E k \in DOMAIN brews : brews[k].TeapotID # req.id

\* C17: every page returned by ListSteepsByBrew is ordered by steepNumber
\* ascending, whatever the createdAt values of the steeps.
SteepsInNumberOrder ==
    /\ ListServed("BrewListSteeps") =>
         \A i, j \in DOMAIN resp.data :
            i < j => resp.data[i].SteepNumber <= resp.data[j].SteepNumber
    /\ \A b \in ParentBrews, page \in StorePages, limit \in StoreLimits :
         \A r \in ListSteepsByBrew(steeps, b, page, limit) :
            \A i, j \in DOMAIN r.data :
               i < j => r.data[i].SteepNumber <= r.data[j].SteepNumber

\* C17 witness: the page holds steep 1 before steep 2 although steep 2 was
\* created later.
EarlierSteepFirst ==
    /\ ListServed("BrewListSteeps")
    /\ Len(resp.data) >= 2
    /\ resp.data[1].SteepNumber = 1
    /\ resp.data[2].SteepNumber = 2
    /\ resp.data[1].CreatedAt < resp.data[2].CreatedAt

----------------------------------------------------------------------------
(* Status codes *)

\* the requests on /:id and on the relationship routes
OnIdentifier ==
    {"TeapotGet", "TeapotUpdate", "TeapotPatch", "TeapotDelete",
     "TeaGet", "TeaUpdate", "TeaPatch", "TeaDelete",
     "BrewGet", "BrewPatch", "BrewDelete",
     "BrewListByTeapot", "BrewListSteeps", "BrewCreateSteep"}

\* C18: GET, PUT, PATCH and DELETE on /teapots/:id and /teas/:id, GET,
\* PATCH and DELETE on /brews/:id, and the relationship routes
\* /teapots/:id/brews and /brews/:id/steeps answer 400 VALIDATION_ERROR when
\* the identifier is malformed and 404 NOT_FOUND when it is well-formed and
\* the entity (or parent) is not stored: the format check comes before the
\* lookup and, for PUT and PATCH, the lookup before the validation of the
\* body, so an absent entity yields 404 whatever the body.  PUT /brews/:id
\* has no route: it is answered 404 without an error code, whatever the
\* identifier.
MalformedIs400AbsentIs404OnRoutes ==
    [][/\ req'.op \in OnIdentifier =>
            /\ req'.id = Malformed =>
                 /\ resp'.status = StatusBadRequest
                 /\ resp'.code = "VALIDATION_ERROR"
                 /\ resp'.message # BindingError
            /\ (req'.id # Malformed /\ req'.id \notin DOMAIN TableOf(req'.op)) =>
                 /\ resp'.status = StatusNotFound
                 /\ resp'.code = "NOT_FOUND"
       /\ req'.op = "BrewUpdate" =>
            /\ resp'.status = StatusNotFound
            /\ resp'.code = ""
            /\ UNCHANGED tables]_vars

\* C18 as stated, with PUT /brews/:id among the requests: a malformed
\* identifier is answered 400 VALIDATION_ERROR and an absent entity 404
\* NOT_FOUND on each of them.
MalformedIs400AbsentIs404 ==
    [][req'.op \in OnIdentifier \cup {"BrewUpdate"} =>
         /\ req'.id = Malformed =>
              /\ resp'.status = StatusBadRequest
              /\ resp'.code = "VALIDATION_ERROR"
         /\ (req'.id # Malformed /\ req'.id \notin DOMAIN TableOf(req'.op)) =>
              /\ resp'.status = StatusNotFound
              /\ resp'.code = "NOT_FOUND"]_vars

\* C18 witness: a PUT with a body that fails validation, for a tea that is
\* not stored, was answered 404 NOT_FOUND.
AbsentTeaPutWithBadBody ==
    /\ req.op = "TeaUpdate"
    /\ ~ValidUpdateTea(req.body)
    /\ req.id # Malformed
    /\ req.id \notin DOMAIN teas
    /\ resp.status = StatusNotFound
    /\ resp.code = "NOT_FOUND"

----------------------------------------------------------------------------
(* Dangling references *)

\* the brews that refer to teapot t, and to tea t
BrewsInTeapot(t) == {b \in Range(brews) : b.TeapotID = t}
BrewsOfTea(t) == {b \in Range(brews) : b.TeaID = t}

\* C19: deleting a teapot or a tea that brews refer to succeeds (removed is
\* true, the answer is 204) and leaves every brew, with its teapotId and
\* teaId, as it was; ListBrews filtered by the identifier of a teapot or
\* tea that is no longer stored still returns the brews that refer to it.
DeleteLeavesBrewsDangling ==
    [][/\ (req'.op = "TeapotDelete" /\ req'.id \in DOMAIN teapots) =>
            /\ DeleteTeapot(teapots, req'.id).removed
            /\ resp'.status = StatusNoContent
            /\ req'.id \notin DOMAIN teapots'
            /\ brews' = brews
            /\ {b \in Range(brews') : b.TeapotID = req'.id} = BrewsInTeapot(req'.id)
       /\ (req'.op = "TeaDelete" /\ req'.id \in DOMAIN teas) =>
            /\ DeleteTea(teas, req'.id).removed
            /\ resp'.status = StatusNoContent
            /\ req'.id \notin DOMAIN teas'
            /\ brews' = brews
            /\ {b \in Range(brews') : b.TeaID = req'.id} = BrewsOfTea(req'.id)
       /\ (req'.op = "BrewList" /\ ValidBrewQuery(req'.query)) =>
            LET q == WithDefaults(req'.query)
                listed == {resp'.data[i] : i \in DOMAIN resp'.data}
            IN  /\ resp'.status = StatusOK
                /\ (q.TeapotID # Nil /\ Deref(q.TeapotID) \notin DOMAIN teapots) =>
                      /\ resp'.pagination.total = Cardinality(BrewsInTeapot(Deref(q.TeapotID)))
                      /\ (q.Page = 1 /\ q.Limit >= resp'.pagination.total) =>
                            listed = BrewsInTeapot(Deref(q.TeapotID))
                /\ (q.TeaID # Nil /\ Deref(q.TeaID) \notin DOMAIN teas) =>
                      /\ resp'.pagination.total = Cardinality(BrewsOfTea(Deref(q.TeaID)))
                      /\ (q.Page = 1 /\ q.Limit >= resp'.pagination.total) =>
                            listed = BrewsOfTea(Deref(q.TeaID))]_vars

\* C19 witness: the teapot and the tea of the stored brews have both been
\* deleted, and GET /brews?teapotId= with the deleted teapot lists them all.
BrewsOfDeletedTeapotListed ==
    /\ req.op = "BrewList"
    /\ req.query.TeapotID = Ptr(Uuid("teapot", 1))
    /\ issued.teapot >= 1
    /\ Uuid("teapot", 1) \notin DOMAIN teapots
    /\ Uuid("tea", 1) \notin DOMAIN teas
    /\ resp.status = StatusOK
    /\ resp.pagination.total = MaxRecords
    /\ \A i \in DOMAIN resp.data :
          resp.data[i].TeapotID = Uuid("teapot", 1) /\ resp.data[i].TeaID = Uuid("tea", 1)

----------------------------------------------------------------------------
(* Delete *)

\* tbl without the entry of id, every other entry as it was
Without(tbl, id) == [k \in DOMAIN tbl \ {id} |-> tbl[k]]

\* del is what Delete(id) on tbl must return
DeletesOnly(del, tbl, id) ==
    /\ del.removed = (id \in DOMAIN tbl)
    /\ del.tbl = Without(tbl, id)
    /\ id \notin DOMAIN tbl => del.tbl = tbl

Deletes == {"TeapotDelete", "TeaDelete", "BrewDelete"}

\* C20: DeleteTeapot, DeleteTea and DeleteBrew return true exactly when an
\* entry with the identifier existed just before the call, and then remove
\* that entry and no other; on an absent identifier they return false and
\* leave the table as it was, so the second Delete of an identifier returns
\* false.  The DELETE handlers answer 204 and 404 accordingly and write to
\* no other table.
DeleteRemovesOnlyThatEntry ==
    /\ [](\A id \in TeapotIds(MaxRecords) \cup {AbsentTeapot} :
            LET del == DeleteTeapot(teapots, id)
            IN  /\ DeletesOnly(del, teapots, id)
                /\ ~DeleteTeapot(del.tbl, id).removed)
    /\ [](\A id \in TeaIds(MaxRecords) \cup {AbsentTea} :
            LET del == DeleteTea(teas, id)
            IN  /\ DeletesOnly(del, teas, id)
                /\ ~DeleteTea(del.tbl, id).removed)
    /\ [](\A id \in BrewIds(MaxRecords) \cup {AbsentBrew} :
            LET del == DeleteBrew(brews, id)
            IN  /\ DeletesOnly(del, brews, id)
                /\ ~DeleteBrew(del.tbl, id).removed)
    /\ [][req'.op \in Deletes =>
            /\ (resp'.status = StatusNoContent) = (req'.id \in DOMAIN TableOf(req'.op))
            /\ req'.id \notin DOMAIN TableOf(req'.op) =>
                  resp'.status \in {StatusBadRequest, StatusNotFound} /\ UNCHANGED tables
            /\ TableOfNext(req'.op) = Without(TableOf(req'.op), req'.id)
            /\ \A other \in Deletes \ {req'.op} : TableOfNext(other) = TableOf(other)
            /\ steeps' = steeps]_vars

\* C20 witness: a teapot that was stored and deleted is deleted a second
\* time; the answer is 404 and the other teapot is still stored.
SecondDeleteNotFound ==
    /\ req.op = "TeapotDelete"
    /\ req.id = Uuid("teapot", 1)
    /\ issued.teapot = MaxRecords
    /\ resp.status = StatusNotFound
    /\ DOMAIN teapots = {Uuid("teapot", MaxRecords)}

----------------------------------------------------------------------------
(* Requests that overlap *)

\* goroutine g has answered a DELETE of a stored tea with 204
Deleted204(g) ==
    /\ inflight[g].op = "TeaDelete"
    /\ inflight[g].resp = NoContent
\* no handler is between two of its store calls
AllCompleted ==
    \A g \in Goroutines : inflight[g] = NotServing \/ inflight[g].pc = "done"

\* C21: once a DELETE has returned 204, no later GET for that identifier
\* returns 200, and whatever PUT or PATCH requests on the identifier
\* overlapped with the DELETE, the deleted record is not in the store once
\* all requests have completed.
DeletedStaysDeleted ==
    /\ [](\A g \in Goroutines :
            (Deleted204(g) /\ AllCompleted) => inflight[g].id \notin DOMAIN teas)
    /\ [][\A g \in Goroutines :
            (Deleted204(g) /\ req = NoRequest /\ req'.op = "TeaGet"
                /\ req'.id = inflight[g].id) => resp'.status # StatusOK]_vars

\* C22: for every brew, the steepNumber values of its stored steeps are
\* pairwise distinct after any sequence of POST /brews/:id/steeps requests,
\* also when requests against the same brew overlap in time.
SteepNumbersPairwiseDistinct ==
    \A k1, k2 \in DOMAIN steeps :
        (k1 # k2 /\ steeps[k1].BrewID = steeps[k2].BrewID) =>
            steeps[k1].SteepNumber # steeps[k2].SteepNumber

\* C23: every brew inserted by POST /brews refers to a teapot and a tea
\* that are both in the store at the moment the brew record is inserted,
\* under any interleaving with DELETE requests for that teapot or tea.
BrewParentsStoredAtInsert ==
    [][\A id \in DOMAIN brews' \ DOMAIN brews :
          /\ brews'[id].TeapotID \in DOMAIN teapots
          /\ brews'[id].TeaID \in DOMAIN teas]_vars

\* goroutine g has answered a PATCH of a tea with 200
Patched200(g) ==
    /\ inflight[g].op = "TeaPatch"
    /\ inflight[g].pc = "done"
    /\ inflight[g].resp.status = StatusOK
\* the two PATCH bodies supply no field in common
DisjointFields(b1, b2) == \A f \in DOMAIN b1 : b1[f] = Nil \/ b2[f] = Nil
\* record t holds every value that PATCH body b supplies
HoldsValuesOf(t, b) == ApplyTeaPatch(t, b, t.UpdatedAt) = t

\* C24: when two PATCH requests on the same entity supply disjoint sets of
\* fields and both return 200, the stored record afterwards holds the new
\* values of both, under any interleaving of the two requests.
BothPatchesKept ==
    \A g, h \in Goroutines :
        (/\ g # h
         /\ Patched200(g) /\ Patched200(h)
         /\ inflight[g].id = inflight[h].id
         /\ DisjointFields(inflight[g].body, inflight[h].body)
         /\ AllCompleted
         /\ inflight[g].id \in DOMAIN teas) =>
            /\ HoldsValuesOf(teas[inflight[g].id], inflight[g].body)
            /\ HoldsValuesOf(teas[inflight[g].id], inflight[h].body)

----------------------------------------------------------------------------
(* Paging of the list requests *)

\* ?page= or ?limit= is neither absent (0) nor in its range
OutOfRange(q) == q.Page < 0 \/ q.Limit < 0 \/ q.Limit > MaxLimit

\* the list request being answered was answered from a store List call,
\* made with the page and limit that the response repeats
CalledWithValidPaging ==
    resp.status = StatusOK =>
        /\ resp.pagination.page >= 1
        /\ resp.pagination.limit >= 1 /\ resp.pagination.limit <= MaxLimit
        /\ resp.pagination.page = (IF req.query.Page = 0 THEN DefaultPage ELSE req.query.Page)
        /\ resp.pagination.limit =
              (IF req.query.Limit = 0 THEN DefaultLimit ELSE req.query.Limit)
        /\ ~OutOfRange(req.query)

\* C25: every call a list handler makes to a store List operation carries
\* page >= 1 and 1 <= limit <= 100: an absent or zero page becomes 1, an
\* absent or zero limit becomes 20, and any other value outside the ranges
\* is rejected before the List operation is called, with 400, or on
\* /teapots/:id/brews and /brews/:id/steeps with 404 when the parent is not
\* stored.
ListCallsCarryValidPaging ==
    req.op \in ListOps =>
        /\ CalledWithValidPaging
        /\ OutOfRange(req.query) =>
              \/ resp.status = StatusBadRequest
              \/ /\ resp.status = StatusNotFound
                 /\ req.op \in {"BrewListByTeapot", "BrewListSteeps"}
                 /\ req.id \notin DOMAIN TableOf(req.op)

\* C25 as stated: a page or limit outside the ranges is always answered 400.
OutOfRangePagingIs400 ==
    req.op \in ListOps =>
        /\ CalledWithValidPaging
        /\ OutOfRange(req.query) => resp.status = StatusBadRequest

\* C25 witness: a list request without ?page= and ?limit= was answered from
\* a store call with page 1 and limit 20, returning a record.
DefaultPagingApplied ==
    /\ req.op \in ListOps
    /\ req.query.Page = 0 /\ req.query.Limit = 0
    /\ resp.status = StatusOK
    /\ resp.pagination.page = DefaultPage
    /\ resp.pagination.limit = DefaultLimit
    /\ resp.pagination.total >= 1

----------------------------------------------------------------------------
(* The window of a page *)

\* C26: for every page >= 1 that an int holds and every limit in 1..100,
\* the bounds of the window that a List operation computes in the
\* arithmetic of int satisfy 0 <= start <= end <= total whenever the slice
\* expression filtered[start:end] is reached (the expression panics when
\* they do not); (page-1)*limit never wraps to a negative start.
WindowWithinTheList ==
    (/\ req.op \in ListOps
     /\ req.query.Page >= 1
     /\ req.query.Limit >= 1 /\ req.query.Limit <= MaxLimit
     /\ resp.status \in {StatusOK, StatusInternalServerError}) =>
        /\ resp.status = StatusOK
        /\ GoInt((req.query.Page - 1) * req.query.Limit) >= 0

----------------------------------------------------------------------------
(* All pages of a list *)

\* the records of a page
OnPage(result) == {result.data[i] : i \in DOMAIN result.data}

\* C27: for a fixed store state, fixed filters and a fixed limit, the List
\* calls for the pages 1..totalPages together return every matching record
\* exactly once, none on two pages and none missing, also when matching
\* records have equal createdAt and each call orders them on its own.
EveryRecordOnOnePage ==
    \A limit \in StoreLimits, material \in {Nil, Ptr("clay")} :
        LET query(page) == [Page |-> page, Limit |-> limit,
                            Material |-> material, Style |-> Nil]
            matching == {t \in Range(teapots) : TeapotMatches(t, query(1))}
            pages == 1..TotalPages(Cardinality(matching), limit)
        IN  \A calls \in [pages -> UNION {ListTeapots(teapots, query(p)) : p \in pages}] :
                (\A p \in pages : calls[p] \in ListTeapots(teapots, query(p))) =>
                    /\ UNION {OnPage(calls[p]) : p \in pages} = matching
                    /\ \A p1, p2 \in pages :
                          p1 # p2 => OnPage(calls[p1]) \cap OnPage(calls[p2]) = {}

----------------------------------------------------------------------------
(* Steeps and their brew *)

\* C28: in every reachable state the brewId of every stored steep is the
\* identifier of a brew in the brew table, after any sequence of brew and
\* steep creations and brew deletions.
SteepsBelongToStoredBrews ==
    \A k \in DOMAIN steeps : steeps[k].BrewID \in DOMAIN brews

----------------------------------------------------------------------------
(* The fields of a brew *)

\* the fields of a brew that no request writes after its creation
BrewFixedFields ==
    {"ID", "TeapotID", "TeaID", "WaterTempCelsius", "StartedAt", "CreatedAt"}

\* C29: after creation the id, teapotId, teaId, waterTempCelsius, startedAt
\* and createdAt of a brew are never changed by any request: PATCH
\* /brews/:id modifies only status, notes, completedAt and updatedAt, no
\* other request modifies a stored brew, and a PATCH that supplies any of
\* the five status values is accepted whatever the status of the brew is.
BrewFixedFieldsKept ==
    [][/\ \A id \in DOMAIN brews \cap DOMAIN brews' :
             /\ \A f \in BrewFixedFields : brews'[id][f] = brews[id][f]
             /\ DOMAIN brews'[id] = DOMAIN brews[id]
             /\ brews'[id] # brews[id] => req'.op = "BrewPatch" /\ req'.id = id
       /\ (/\ req'.op = "BrewPatch"
           /\ req'.id \in DOMAIN brews
           /\ req'.body.Status # Nil
           /\ Deref(req'.body.Status) \in BrewStatuses) =>
             /\ resp'.status = StatusOK
             /\ brews'[req'.id].Status = Deref(req'.body.Status)]_vars

\* C29 witness: a brew that an earlier PATCH completed is set back to
\* preparing by a later PATCH, and has the teapot, tea, temperature and
\* times of its creation.
CompletedBrewSetBackToPreparing ==
    /\ req.op = "BrewPatch"
    /\ req.body.Status = Ptr(BrewPreparing)
    /\ req.body.CompletedAt = Nil
    /\ resp.status = StatusOK
    /\ brews[req.id].Status = BrewPreparing
    /\ brews[req.id].CompletedAt # Nil
    /\ brews[req.id].UpdatedAt > brews[req.id].CreatedAt
    /\ brews[req.id].StartedAt = brews[req.id].CreatedAt
    /\ brews[req.id].TeapotID \in PatchedTeapots
    /\ brews[req.id].TeaID \in PatchedTeas

----------------------------------------------------------------------------
(* Create and Update of the store *)

\* the records a caller may hand to Create or Update of the table: a stored
\* record, written at the present time, under a stored or an absent identifier
WrittenRecords(tbl, absent) ==
    {[r EXCEPT !.ID = id, !.UpdatedAt = clock] :
        r \in Range(tbl), id \in DOMAIN tbl \cup {absent}}

\* the table after the record was stored under its identifier: the other
\* entries as they were, and one entry more only when the identifier was new
StoredUnderItsID(tbl, after, r) ==
    /\ DOMAIN after = DOMAIN tbl \cup {r.ID}
    /\ after[r.ID] = r
    /\ \A k \in DOMAIN tbl \ {r.ID} : after[k] = tbl[k]
    /\ Cardinality(DOMAIN after) =
           Cardinality(DOMAIN tbl) + (IF r.ID \in DOMAIN tbl THEN 0 ELSE 1)

\* C30: in the store Create and Update are one operation: each stores the
\* record under its ID whether or not that ID is present, so Create on a
\* stored ID replaces the record and leaves the size of the table, Update
\* on an absent ID inserts the record, and the two results are equal, which
\* tells the caller nothing about the case that occurred.
CreateIsUpdate ==
    /\ \A r \in WrittenRecords(teapots, AbsentTeapot) :
          /\ StoredUnderItsID(teapots, CreateTeapot(teapots, r), r)
          /\ StoredUnderItsID(teapots, UpdateTeapot(teapots, r), r)
          /\ CreateTeapot(teapots, r) = UpdateTeapot(teapots, r)
    /\ \A r \in WrittenRecords(teas, AbsentTea) :
          /\ StoredUnderItsID(teas, CreateTea(teas, r), r)
          /\ StoredUnderItsID(teas, UpdateTea(teas, r), r)
          /\ CreateTea(teas, r) = UpdateTea(teas, r)
    /\ \A r \in WrittenRecords(brews, AbsentBrew) :
          /\ StoredUnderItsID(brews, CreateBrew(brews, r), r)
          /\ StoredUnderItsID(brews, UpdateBrew(brews, r), r)
          /\ CreateBrew(brews, r) = UpdateBrew(brews, r)

\* C30 witness: UpdateTeapot has replaced one of two stored teapots at a
\* later time than its creation, and both are still stored.
TeapotReplacedAmongTwo ==
    /\ req.op = "TeapotUpdate"
    /\ resp.status = StatusOK
    /\ Cardinality(DOMAIN teapots) = 2
    /\ teapots[req.id].UpdatedAt > teapots[req.id].CreatedAt
    /\ \E k \in DOMAIN teapots : k # req.id

====
